---- MODULE Spec2Model ----
(***************************************************************************)
(* Model of the BLE ADV codec engine (codecs/models.py, codecs/utils.py,   *)
(* codecs/zhijia.py, codecs/fanlamp.py, codecs/le.py) and of the parts of  *)
(* the coordinator that call it (coordinator.py).                          *)
(*                                                                         *)
(* Byte buffers are sequences of naturals in 0..255, indexed from 1 as     *)
(* TLA+ sequences are; At(s, i) reads the Python index i.                   *)
(***************************************************************************)
EXTENDS Integers, Sequences, FiniteSets, TLC

(***************************************************************************)
(* Integer and byte helpers (Python operators ^, &, <<, >>, slices).       *)
(***************************************************************************)
RECURSIVE Xor(_, _)
Xor(a, b) ==
    IF a = 0 THEN b
    ELSE IF b = 0 THEN a
    ELSE 2 * Xor(a \div 2, b \div 2) + ((a + b) % 2)

RECURSIVE And(_, _)
And(a, b) ==
    IF a = 0 \/ b = 0 THEN 0
    ELSE 2 * And(a \div 2, b \div 2) + ((a % 2) * (b % 2))

Or(a, b) == a + b - And(a, b)

RECURSIVE Pow2(_)
Pow2(n) == IF n = 0 THEN 1 ELSE 2 * Pow2(n - 1)

Shr(a, n) == a \div Pow2(n)

Min(a, b) == IF a < b THEN a ELSE b

\* Where a value is used several times it is bound once, as x in
\* CHOOSE out \in {F(x) : x \in {value}} : TRUE, which is F(value).

Max(a, b) == IF a > b THEN a ELSE b

At(s, i) == s[i + 1]

\* Python s[a:b] for 0 <= a, with the clamping Python applies to slices
PySlice(s, a, b) ==
    LET lo == Min(Max(a, 0), Len(s))
        hi == Min(Max(b, 0), Len(s))
    IN  IF hi <= lo THEN <<>> ELSE SubSeq(s, lo + 1, hi)

PyFrom(s, a) == PySlice(s, a, Len(s))

\* Python s[-n:] (for n = 0 this is the whole sequence, as in Python)
PyLast(s, n) == IF n = 0 THEN s ELSE PySlice(s, Len(s) - n, Len(s))

\* Python s[:-n] for n > 0
PyButLast(s, n) == PySlice(s, 0, Len(s) - n)

RECURSIVE XorAll(_)
XorAll(s) == IF s = <<>> THEN 0 ELSE Xor(Head(s), XorAll(Tail(s)))

RECURSIVE SumAll(_)
SumAll(s) == IF s = <<>> THEN 0 ELSE Head(s) + SumAll(Tail(s))

XorEach(s, k) == [i \in 1..Len(s) |-> Xor(s[i], k)]

\* int.to_bytes(n, len, "little"); the caller checks ToBytesFits first
ToBytesLE(n, len) == [i \in 1..len |-> (n \div Pow2(8 * (i - 1))) % 256]

\* int.to_bytes(n, len) (big endian, the Python default)
ToBytesBE(n, len) == [i \in 1..len |-> (n \div Pow2(8 * (len - i))) % 256]

\* int.to_bytes raises OverflowError when n does not fit in len bytes
ToBytesFits(n, len) == n \div Pow2(8 * (len - 1)) < 256

RECURSIVE FromBytesLE(_)
FromBytesLE(s) == IF s = <<>> THEN 0 ELSE Head(s) + 256 * FromBytesLE(Tail(s))

RECURSIVE FromBytesBE(_)
FromBytesBE(s) ==
    IF s = <<>> THEN 0 ELSE Head(s) * Pow2(8 * (Len(s) - 1)) + FromBytesBE(Tail(s))

Zeros(n) == [i \in 1..n |-> 0]

(***************************************************************************)
(* codecs/utils.py                                                         *)
(***************************************************************************)
\* The loops of whiten and of the CRCs are recursive functions: a function
\* application evaluates its arguments before the call, as the loops do.

\* the inner loop of whiten from round j on: r <<= 1; test bit 7; r &= 0x7F
WhitenRounds[r \in Nat, b \in Nat, j \in Nat] ==
    IF j = 8 THEN [r |-> r, b |-> b]
    ELSE LET r2  == 2 * r
             hit == (r2 \div 128) % 2 = 1
             r3  == IF hit THEN Xor(r2, 17) ELSE r2
         IN  WhitenRounds[r3 % 128, IF hit THEN b + Pow2(j) ELSE b, j + 1]

WhitenFrom[buffer \in Seq(Nat), r \in Nat] ==
    IF buffer = <<>> THEN <<>>
    ELSE LET st == WhitenRounds[r, 0, 0]
         IN  <<Xor(Head(buffer), st.b)>> \o WhitenFrom[Tail(buffer), st.r]

\* a variant of whiten whose register takes up the bytes it has put out
WhitenFeedback[buffer \in Seq(Nat), r \in Nat] ==
    IF buffer = <<>> THEN <<>>
    ELSE LET st == WhitenRounds[r, 0, 0]
             o  == Xor(Head(buffer), st.b)
         IN  <<o>> \o WhitenFeedback[Tail(buffer), Xor(st.r, o % 128)]

whiten_feedback(buffer, seed) == WhitenFeedback[buffer, seed]

whiten(buffer, seed) == WhitenFrom[buffer, seed]

reverse_byte(x) ==
    LET x1 == Or(And(x, 85) * 2, And(x, 170) \div 2)
        x2 == Or(And(x1, 51) * 4, And(x1, 204) \div 4)
    IN  Or(And(x2, 15) * 16, And(x2, 240) \div 16)

reverse_all(buffer) == [i \in 1..Len(buffer) |-> reverse_byte(buffer[i])]

Crc16LeRounds[crc \in Nat, poly \in Nat, n \in Nat] ==
    IF n = 0 THEN crc
    ELSE Crc16LeRounds[IF crc % 2 = 1 THEN Xor(crc \div 2, poly) ELSE crc \div 2, poly, n - 1]

Crc16LeFrom[buffer \in Seq(Nat), crc \in Nat, poly \in Nat] ==
    IF buffer = <<>> THEN crc
    ELSE Crc16LeFrom[Tail(buffer), Crc16LeRounds[Xor(crc, Head(buffer)), poly, 8], poly]

crc16_le(buffer, seed, poly, ref_in, ref_out) ==
    LET crc0 == IF ref_in THEN Xor(seed, 65535) ELSE seed
        crc  == Crc16LeFrom[buffer, crc0, poly]
    IN  IF ref_out THEN Xor(crc, 65535) ELSE crc

\* binascii.crc_hqx: CRC-CCITT, polynomial 0x1021, most significant bit first
CrcHqxRounds[crc \in Nat, n \in Nat] ==
    IF n = 0 THEN crc
    ELSE CrcHqxRounds[IF crc >= 32768 THEN Xor((2 * crc) % 65536, 4129)
                      ELSE (2 * crc) % 65536, n - 1]

CrcHqxFrom[buffer \in Seq(Nat), crc \in Nat] ==
    IF buffer = <<>> THEN crc
    ELSE CrcHqxFrom[Tail(buffer), CrcHqxRounds[Xor(crc, Head(buffer) * 256), 8]]

crc_hqx(buffer, crc) == CrcHqxFrom[buffer, crc]

(***************************************************************************)
(* codecs/models.py: BleAdvEncCmd, BleAdvConfig, BleAdvAdvertisement.      *)
(* arg3 and arg4 of BleAdvEncCmd are left out: no modelled codec reads or  *)
(* writes them.                                                            *)
(***************************************************************************)
BleAdvEncCmd(cmd, param, arg0, arg1, arg2) ==
    [cmd |-> cmd, param |-> param, arg0 |-> arg0, arg1 |-> arg1, arg2 |-> arg2]

BleAdvConfig(id, index) ==
    [id |-> id, index |-> index, tx_count |-> 0, app_restart_count |-> 1, seed |-> 0]

BleAdvAdvertisement(ble_type, raw, ad_flag) ==
    [ble_type |-> ble_type, raw |-> raw, ad_flag |-> ad_flag]

\* what decode_adv / decrypt / convert_to_enc hand back: (None, None), a pair,
\* or an exception that leaves the call
NoEnc == BleAdvEncCmd(0, 0, 0, 0, 0)

NoConf == BleAdvConfig(0, 0)

DecNone == [st |-> "none", enc |-> NoEnc, conf |-> NoConf]

DecRaise == [st |-> "raise", enc |-> NoEnc, conf |-> NoConf]

DecOk(enc, conf) == [st |-> "ok", enc |-> enc, conf |-> conf]

is_eq(ref, comp) == ref = comp

is_eq_buf(ref_buf, comp_buf) == PySlice(comp_buf, 0, Len(ref_buf)) = ref_buf

(***************************************************************************)
(* codecs/zhijia.py                                                        *)
(***************************************************************************)
ZhijiaEncoder_crc16(buffer, seed) == crc16_le(buffer, seed, 33800, TRUE, TRUE)

ZhijiaEncoder_pivot(buffer, pivot_index, pivot_xor) ==
    LET p0 == XorAll([i \in 1..Len(buffer) |->
                        IF (i - 1) \in pivot_index THEN buffer[i] ELSE 0])
        p1 == IF pivot_xor THEN Xor(p0, And((p0 % 2) - 1 + 256, 255)) ELSE p0
    IN  XorEach(buffer, p1)

ZhijiaV0_pivot_index == {0, 1, 6, 7}

ZhijiaV1_pivot_index == {2, 4, 9, 12, 13, 15}

ZhijiaV2_pivot_index == {3, 7, 11, 12, 13, 15}

ZhijiaEncoderV0_decrypt(buffer) ==
    LET decoded_base == whiten(whiten(buffer, 55), 127)
    IN  IF ~is_eq(FromBytesLE(PyLast(decoded_base, 2)),
                  ZhijiaEncoder_crc16(PyButLast(decoded_base, 2), 0))
        THEN [st |-> "none", buf |-> <<>>]
        ELSE [st |-> "ok", buf |-> PyButLast(decoded_base, 2)]

\* a variant of encrypt that whitens once, which decrypt does not undo
ZhijiaEncoderV0_encrypt_whiten_once(buffer) ==
    whiten(buffer \o ToBytesLE(ZhijiaEncoder_crc16(buffer, 0), 2), 127)

ZhijiaEncoderV0_encrypt(buffer) ==
    whiten(whiten(buffer \o ToBytesLE(ZhijiaEncoder_crc16(buffer, 0), 2), 127), 55)

\* a variant of convert_to_enc that reads tx_count without the xor with the id
ZhijiaEncoderV0_convert_to_enc_plain_tx(buf) ==
    LET decoded == ZhijiaEncoder_pivot(buf, ZhijiaV0_pivot_index, FALSE)
        enc_cmd == BleAdvEncCmd(At(decoded, 4), 0, At(decoded, 1), At(decoded, 3),
                                Xor(At(decoded, 1), At(decoded, 7)))
        conf    == [NoConf EXCEPT !.id = FromBytesLE(<<At(decoded, 0), At(decoded, 5)>>),
                                  !.index = At(decoded, 2),
                                  !.tx_count = At(decoded, 6)]
    IN  DecOk(enc_cmd, conf)

ZhijiaEncoderV0_convert_to_enc(buf) ==
    LET decoded == ZhijiaEncoder_pivot(buf, ZhijiaV0_pivot_index, FALSE)
        enc_cmd == BleAdvEncCmd(At(decoded, 4), 0, At(decoded, 1), At(decoded, 3),
                                Xor(At(decoded, 1), At(decoded, 7)))
        conf    == [NoConf EXCEPT !.id = FromBytesLE(<<At(decoded, 0), At(decoded, 5)>>),
                                  !.index = At(decoded, 2),
                                  !.tx_count = Xor(At(decoded, 0), At(decoded, 6))]
    IN  DecOk(enc_cmd, conf)

\* int.to_bytes(conf.id, 2) raises OverflowError for an id of more than 2 bytes
ZhijiaEncoderV0_convert_from_enc(enc_cmd, conf) ==
    IF ~ToBytesFits(conf.id, 2) THEN [raised |-> TRUE, buf |-> <<>>]
    ELSE LET uuid   == ToBytesLE(conf.id, 2)
             oarray == <<At(uuid, 0), enc_cmd.arg0, conf.index, enc_cmd.arg1, enc_cmd.cmd,
                         At(uuid, 1), Xor(At(uuid, 0), conf.tx_count),
                         Xor(enc_cmd.arg0, enc_cmd.arg2)>>
         IN  [raised |-> FALSE, buf |-> ZhijiaEncoder_pivot(oarray, ZhijiaV0_pivot_index, FALSE)]

ZhijiaEncoderV1_decrypt(buffer) ==
    LET decoded_base == whiten(buffer, 55)
    IN  IF ~is_eq(FromBytesLE(PyLast(decoded_base, 2)),
                  ZhijiaEncoder_crc16(PyButLast(decoded_base, 2), 0))
        THEN [st |-> "none", buf |-> <<>>]
        ELSE [st |-> "ok", buf |-> PyButLast(decoded_base, 2)]

ZhijiaEncoderV1_encrypt(buffer) ==
    whiten(buffer \o ToBytesLE(ZhijiaEncoder_crc16(buffer, 0), 2), 55)

ZhijiaEncoderV1_common_convert_to_enc(decoded, mac) ==
    LET addr == <<At(decoded, 7), At(decoded, 10), Xor(At(decoded, 13), At(decoded, 4))>>
    IN  IF ~is_eq_buf(mac, addr) THEN DecNone
        ELSE DecOk(BleAdvEncCmd(At(decoded, 9), 0, At(decoded, 0), At(decoded, 3), At(decoded, 5)),
                   [NoConf EXCEPT !.id = FromBytesLE(<<At(decoded, 2),
                                                       Xor(At(decoded, 12), At(decoded, 2)),
                                                       Xor(At(decoded, 15), At(decoded, 9))>>),
                                  !.index = At(decoded, 6),
                                  !.tx_count = At(decoded, 4)])

\* the 17 bytes of the common part; the caller checks ToBytesFits(conf.id, 3)
ZhijiaEncoderV1_common_convert_from_enc(enc_cmd, conf, mac) ==
    LET uuid == ToBytesLE(conf.id, 3)
        key  == XorAll(<<enc_cmd.cmd, enc_cmd.arg0, enc_cmd.arg1, enc_cmd.arg2,
                         At(uuid, 0), At(uuid, 1), At(uuid, 2), conf.tx_count, conf.index,
                         At(mac, 0), At(mac, 1), At(mac, 2)>>)
    IN  <<enc_cmd.arg0, key, At(uuid, 0), enc_cmd.arg1, conf.tx_count, enc_cmd.arg2,
          conf.index, At(mac, 0), 0, enc_cmd.cmd, At(mac, 1), 0,
          Xor(At(uuid, 1), At(uuid, 0)), Xor(At(mac, 2), conf.tx_count), 0,
          Xor(At(uuid, 2), enc_cmd.cmd), 0>>

ZhijiaEncoderV1_convert_to_enc(buf, mac) ==
    LET decoded == ZhijiaEncoder_pivot(buf, ZhijiaV1_pivot_index, TRUE)
        res     == ZhijiaEncoderV1_common_convert_to_enc(decoded, mac)
    IN  IF \/ res.st = "none"
           \/ ~is_eq(0, At(decoded, 8))
           \/ ~is_eq(0, At(decoded, 11))
           \/ ~is_eq(At(decoded, 7), At(decoded, 14))
        THEN DecNone
        ELSE res

ZhijiaEncoderV1_convert_from_enc(enc_cmd, conf, mac) ==
    IF ~ToBytesFits(conf.id, 3) THEN [raised |-> TRUE, buf |-> <<>>]
    ELSE LET o0     == ZhijiaEncoderV1_common_convert_from_enc(enc_cmd, conf, mac)
             oarray == [o0 EXCEPT ![15] = At(o0, 7)]
         IN  [raised |-> FALSE, buf |-> ZhijiaEncoder_pivot(oarray, ZhijiaV1_pivot_index, TRUE)]

ZhijiaEncoderV2_decrypt(buffer) ==
    LET buf1 == whiten(buffer, 111)
        buf2 == whiten(PyButLast(buf1, 2), 211) \o PyLast(buf1, 2)
    IN  IF ~is_eq_buf(Zeros(7), PyLast(buf2, 7))
        THEN [st |-> "none", buf |-> <<>>]
        ELSE [st |-> "ok", buf |-> PyButLast(buf2, 7)]

ZhijiaEncoderV2_encrypt(buffer) ==
    LET buf1 == buffer \o Zeros(7)
    IN  whiten(whiten(PyButLast(buf1, 2), 211) \o PyLast(buf1, 2), 111)

ZhijiaEncoderV2_convert_to_enc(buf, mac) ==
    LET decoded == ZhijiaEncoder_pivot(buf, ZhijiaV2_pivot_index, TRUE)
        res     == ZhijiaEncoderV1_common_convert_to_enc(decoded, mac)
        x234    == XorAll(<<At(decoded, 2), At(decoded, 3), At(decoded, 4)>>)
    IN  IF \/ res.st = "none"
           \/ ~is_eq(Xor(x234, At(decoded, 7)), At(decoded, 8))
           \/ ~is_eq(0, At(decoded, 11))
           \/ ~is_eq(Xor(x234, At(decoded, 9)), At(decoded, 14))
        THEN DecNone
        ELSE res

ZhijiaEncoderV2_convert_from_enc(enc_cmd, conf, mac) ==
    IF ~ToBytesFits(conf.id, 3) THEN [raised |-> TRUE, buf |-> <<>>]
    ELSE LET o0     == ZhijiaEncoderV1_common_convert_from_enc(enc_cmd, conf, mac)
             x234   == XorAll(<<At(o0, 2), At(o0, 3), At(o0, 4)>>)
             oarray == [o0 EXCEPT ![2] = Xor(At(o0, 1), At(o0, 9)),
                                  ![9] = Xor(x234, At(o0, 7)),
                                  ![15] = Xor(x234, At(o0, 9))]
         IN  [raised |-> FALSE, buf |-> ZhijiaEncoder_pivot(oarray, ZhijiaV2_pivot_index, TRUE)]

(***************************************************************************)
(* codecs/fanlamp.py: FanLampEncoderV1Base, FanLampEncoderV1b,             *)
(* FanLampEncoderV1.  A codec is passed as its descriptor record c.        *)
(***************************************************************************)
FanLampEncoder_crc16(buffer, seed) == crc_hqx(buffer, seed)

FanLampV1_prefix == <<170, 152, 67, 175, 11, 70, 70, 70>>

FanLampEncoderV1Base_crc2(c, buffer) ==
    IF c.forced_crc2 # 0 THEN c.forced_crc2 ELSE FanLampEncoder_crc16(buffer, c.crc2_seed)

FanLampEncoderV1Base_decrypt(buffer) == [st |-> "ok", buf |-> reverse_all(whiten(buffer, 111))]

FanLampEncoderV1Base_encrypt(buffer) == whiten(reverse_all(buffer), 111)

FanLampEncoderV1b_convert_to_enc(c, decoded) ==
    IF ~is_eq(FanLampEncoderV1Base_crc2(c, PyButLast(decoded, 2)),
              FromBytesBE(PySlice(decoded, 14, 16)))
    THEN DecNone
    ELSE DecOk(BleAdvEncCmd(At(decoded, 0), At(decoded, 7), At(decoded, 3), At(decoded, 4),
                            At(decoded, 5)),
               [NoConf EXCEPT !.id = FromBytesLE(PySlice(decoded, 1, 3))])

\* conf.id.to_bytes(2, ...) raises OverflowError for an id of more than 2 bytes
FanLampEncoderV1b_convert_multi_from_enc(c, enc_cmd, conf) ==
    IF ~ToBytesFits(conf.id, 2) THEN [raised |-> TRUE, bufs |-> <<>>]
    ELSE LET uid     == ToBytesLE(conf.id, 2)
             rev_uid == ToBytesBE(conf.id, 2)
             base_buffer == <<enc_cmd.cmd>> \o uid \o <<enc_cmd.arg0, enc_cmd.arg1, enc_cmd.arg2>>
             buffers == << base_buffer \o <<0, enc_cmd.param, 2, 0, 0, 0, 1, 0>>,
                           base_buffer \o <<1, enc_cmd.param>> \o rev_uid \o <<0, 0, 1, 1>>,
                           base_buffer \o <<2, enc_cmd.param>> \o rev_uid \o <<0, 0, 2, 0>>,
                           base_buffer \o <<3, enc_cmd.param>> \o rev_uid \o <<0, 0, 3, 0>> >>
         IN  [raised |-> FALSE,
              bufs |-> [i \in 1..4 |->
                          buffers[i] \o ToBytesBE(FanLampEncoderV1Base_crc2(c, buffers[i]), 2)]]

FanLampEncoderV1_get_arg2(c, cmd, arg2) ==
    IF cmd = 34 THEN arg2
    ELSE IF cmd = 40 \/ (~c.arg2_only_on_pair /\ cmd \notin {18, 19, 30, 31}) THEN c.arg2
    ELSE 0

FanLampEncoderV1_convert_to_enc(c, decoded) ==
    LET seed  == FromBytesBE(PySlice(decoded, 10, 12))
        seed8 == And(seed, 255)
    IN  IF \/ ~is_eq(FanLampEncoder_crc16(PySlice(decoded, 0, 12), Xor(seed, 65535)),
                     FromBytesBE(PySlice(decoded, 12, 14)))
           \/ ~is_eq(FanLampEncoderV1_get_arg2(c, At(decoded, 0), At(decoded, 5)), At(decoded, 5))
           \/ ~is_eq(IF c.xor1 THEN Xor(seed8, 1) ELSE seed8, At(decoded, 9))
           \/ (c.with_crc2 /\ ~is_eq(FanLampEncoderV1Base_crc2(c, PyButLast(decoded, 2)),
                                     FromBytesBE(PySlice(decoded, 14, 16))))
        THEN DecNone
        ELSE LET group_index == FromBytesLE(PySlice(decoded, 1, 3))
                 conf == [NoConf EXCEPT
                            !.index = Shr(And(group_index, 3840), 8),
                            !.id = Or(And(group_index, 61695),
                                      Xor(seed8, At(decoded, 8)) * 65536),
                            !.tx_count = At(decoded, 6),
                            !.seed = seed]
                 cmd == At(decoded, 0)
             IN  IF cmd # 40
                 THEN DecOk(BleAdvEncCmd(cmd, At(decoded, 7), At(decoded, 3), At(decoded, 4),
                                         IF cmd = 34 THEN At(decoded, 5) ELSE 0), conf)
                 ELSE IF \/ ~is_eq(And(conf.id, 255), At(decoded, 3))
                         \/ ~is_eq(And(Shr(conf.id, 8), 240), At(decoded, 4))
                      THEN DecNone
                      ELSE DecOk(BleAdvEncCmd(cmd, IF c.arg2 = 0 THEN 0 ELSE At(decoded, 7),
                                              0, 0, 0), conf)

\* conf.seed.to_bytes(2) raises OverflowError for a seed of more than 2 bytes
FanLampEncoderV1_convert_from_enc(c, enc_cmd, conf) ==
    IF ~ToBytesFits(conf.seed, 2) THEN [raised |-> TRUE, buf |-> <<>>]
    ELSE LET is_pair_cmd == enc_cmd.cmd = 40
             seed8 == And(conf.seed, 255)
             o12 == <<enc_cmd.cmd>>
                    \o ToBytesLE(Or(And(conf.id, 61695), And(conf.index, 15) * 256), 2)
                    \o << IF is_pair_cmd THEN And(conf.id, 255) ELSE enc_cmd.arg0,
                          IF is_pair_cmd THEN And(Shr(conf.id, 8), 240) ELSE enc_cmd.arg1,
                          FanLampEncoderV1_get_arg2(c, enc_cmd.cmd, enc_cmd.arg2),
                          conf.tx_count,
                          IF c.arg2 = 0 /\ is_pair_cmd THEN At(c.header, 0) ELSE enc_cmd.param,
                          IF c.xor1 THEN Xor(seed8, 1)
                          ELSE Xor(seed8, And(Shr(conf.id, 16), 255)),
                          IF c.xor1 THEN Xor(seed8, 1) ELSE seed8 >>
                    \o ToBytesBE(conf.seed, 2)
             o14 == o12 \o ToBytesBE(FanLampEncoder_crc16(o12, Xor(conf.seed, 65535)), 2)
         IN  [raised |-> FALSE,
              buf |-> IF c.with_crc2
                      THEN o14 \o ToBytesBE(FanLampEncoderV1Base_crc2(c, o14), 2)
                      ELSE o14 \o <<170>>]

(***************************************************************************)
(* codecs/le.py: LeEncoder.  Indexing a bytes object past its end raises   *)
(* IndexError, which the operators report as "raise".                      *)
(***************************************************************************)
XBOXES == <<203, 106, 149, 141, 182, 123, 53, 90, 110, 73, 92, 133, 55, 60, 166, 136>>

LeEncoder_checksum(buffer) == Xor(And(SumAll(buffer) + 1, 255), 255)

LeEncoder_encode(buffer, salt) == XorEach(buffer, At(XBOXES, And(salt, 15)))

LeEncoder_decrypt(c, buffer) ==
    LET data_len == At(buffer, 0)
        zero_len == c.len - data_len - 1
    IN  IF \/ zero_len < 0
           \/ ~is_eq(1, At(buffer, 1))
           \/ ~is_eq_buf(Zeros(zero_len), PyLast(buffer, zero_len))
        THEN [st |-> "none", buf |-> <<>>]
        ELSE LET decoded_base == PySlice(buffer, 2, 6)
                                 \o LeEncoder_encode(PySlice(buffer, 6, data_len + 1), At(buffer, 2))
             IN  IF Len(decoded_base) <= 4 THEN [st |-> "raise", buf |-> <<>>]
                 ELSE IF \/ ~is_eq(254, At(decoded_base, 4))
                         \/ ~is_eq(LeEncoder_checksum(PyButLast(decoded_base, 1)),
                                   At(decoded_base, Len(decoded_base) - 1))
                      THEN [st |-> "none", buf |-> <<>>]
                      ELSE [st |-> "ok", buf |-> PyButLast(decoded_base, 1)]

LeEncoder_encrypt(c, buffer) ==
    LET data == <<Len(buffer) + 2, 1>> \o buffer \o <<LeEncoder_checksum(buffer)>>
    IN  PySlice(data, 0, 6) \o LeEncoder_encode(PyFrom(data, 6), At(data, 2))
        \o Zeros(c.len - Len(data))

LeEncoder_convert_to_enc(decoded) ==
    IF Len(decoded) < 9 THEN DecRaise
    ELSE LET param == At(decoded, 8)
         IN  IF Len(decoded) < 9 + Min(param, 3) THEN DecRaise
             ELSE DecOk(BleAdvEncCmd(At(decoded, 7), param,
                                     IF param < 1 THEN 0 ELSE At(decoded, 9),
                                     IF param < 2 THEN 0 ELSE At(decoded, 10),
                                     IF param < 3 THEN 0 ELSE At(decoded, 11)),
                        [NoConf EXCEPT !.id = FromBytesLE(PySlice(decoded, 0, 4)),
                                       !.index = At(decoded, 5),
                                       !.tx_count = At(decoded, 6)])

\* conf.id.to_bytes(4, ...) raises OverflowError for an id of more than 4 bytes
LeEncoder_convert_from_enc(enc_cmd, conf) ==
    IF ~ToBytesFits(conf.id, 4) THEN [raised |-> TRUE, buf |-> <<>>]
    ELSE [raised |-> FALSE,
          buf |-> ToBytesLE(conf.id, 4)
                  \o <<254, conf.index, conf.tx_count, enc_cmd.cmd, enc_cmd.param>>
                  \o PySlice(<<enc_cmd.arg0, enc_cmd.arg1, enc_cmd.arg2>>, 0, enc_cmd.param)]

(***************************************************************************)
(* The registered codecs (codecs/zhijia.py CODECS, codecs/fanlamp.py       *)
(* FLCODECS / LSCODECS, codecs/le.py CODECS), each as the field values its *)
(* constructor and builder calls (id, fid, header, prefix, ble) leave.     *)
(* The registry holds more codecs than these; the other encoder classes    *)
(* are not modelled.                                                       *)
(***************************************************************************)
\* class defaults of BleAdvCodec
BleAdvCodec_tx_step == 1

BleAdvCodec_tx_max == 125

BleAdvCodec_seed_max == 0

ZhijiaEncoderV1_tx_step == 2

FanLampEncoderV1_seed_max == 65525

ZhijiaEncoderV0_len == 13

ZhijiaEncoderV1_len == 23

ZhijiaEncoderV2_len == 24

FanLampEncoder_len == 24

LeEncoder_len == 21

BleAdvCodec ==
    [cls |-> "", match_id |-> "", len |-> 0, header |-> <<>>, header_start_pos |-> 0,
     prefix |-> <<>>, footer |-> <<>>, ble_type |-> 0, ad_flag |-> 0,
     tx_step |-> BleAdvCodec_tx_step, tx_max |-> BleAdvCodec_tx_max,
     seed_max |-> BleAdvCodec_seed_max, multi_advs |-> FALSE,
     mac |-> <<>>, arg2 |-> 0, arg2_only_on_pair |-> TRUE, xor1 |-> FALSE,
     forced_crc2 |-> 0, crc2_seed |-> 0, with_crc2 |-> FALSE]

ZhijiaEncoderV0(match_id, header, prefix) ==
    [BleAdvCodec EXCEPT !.cls = "ZhijiaEncoderV0", !.match_id = match_id,
                        !.len = ZhijiaEncoderV0_len, !.header = header, !.prefix = prefix,
                        !.ad_flag = 26, !.ble_type = 255]

ZhijiaEncoderV1(match_id, mac, header, prefix) ==
    [BleAdvCodec EXCEPT !.cls = "ZhijiaEncoderV1", !.match_id = match_id,
                        !.len = ZhijiaEncoderV1_len, !.tx_step = ZhijiaEncoderV1_tx_step,
                        !.mac = mac, !.header = header, !.prefix = prefix,
                        !.ad_flag = 26, !.ble_type = 255]

ZhijiaEncoderV2(match_id, mac, header) ==
    [BleAdvCodec EXCEPT !.cls = "ZhijiaEncoderV2", !.match_id = match_id,
                        !.len = ZhijiaEncoderV2_len, !.tx_step = ZhijiaEncoderV1_tx_step,
                        !.mac = mac, !.header = header,
                        !.ad_flag = 26, !.ble_type = 255]

FanLampEncoderV1Base(cls, match_id, header, ad_flag, ble_type) ==
    [BleAdvCodec EXCEPT !.cls = cls, !.match_id = match_id, !.len = FanLampEncoder_len,
                        !.header = header, !.prefix = FanLampV1_prefix,
                        !.crc2_seed = FanLampEncoder_crc16(PySlice(FanLampV1_prefix, 1, 6), 65535),
                        !.with_crc2 = TRUE,
                        !.ad_flag = ad_flag, !.ble_type = ble_type]

FanLampEncoderV1(match_id, arg2, arg2_only_on_pair, xor1, header, ad_flag, ble_type) ==
    [FanLampEncoderV1Base("FanLampEncoderV1", match_id, header, ad_flag, ble_type) EXCEPT
        !.seed_max = FanLampEncoderV1_seed_max,
        !.arg2 = arg2, !.arg2_only_on_pair = arg2_only_on_pair, !.xor1 = xor1]

FanLampEncoderV1b(match_id, header, ad_flag, ble_type) ==
    [FanLampEncoderV1Base("FanLampEncoderV1b", match_id, header, ad_flag, ble_type) EXCEPT
        !.multi_advs = TRUE]

LeEncoder(match_id, header) ==
    [BleAdvCodec EXCEPT !.cls = "LeEncoder", !.match_id = match_id, !.len = LeEncoder_len,
                        !.header = header, !.ad_flag = 26, !.ble_type = 255]

CodecIds ==
    {"zhijia_v0", "zhijia_v1", "zhijia_v2", "zhijia_v2_fl", "zhijia_v2_split",
     "fanlamp_pro_v1", "fanlamp_pro_v1/r0", "lampsmart_pro_v1", "lelight"}

CODECS(c) ==
    CASE c = "zhijia_v0" -> ZhijiaEncoderV0("zhijia_v0", <<249, 8, 73>>, <<8, 128, 152>>)
      [] c = "zhijia_v1" ->
            ZhijiaEncoderV1("zhijia_v1", <<25, 1, 16>>, <<249, 8, 73>>, <<85, 8, 128, 152>>)
      [] c = "zhijia_v2" -> ZhijiaEncoderV2("zhijia_v2", <<25, 1, 16>>, <<34, 157>>)
      [] c = "zhijia_v2_fl" -> ZhijiaEncoderV2("zhijia_v2_fl", <<25, 1, 16>>, <<34, 157>>)
      [] c = "zhijia_v2_split" -> ZhijiaEncoderV2("zhijia_v2_split", <<25, 1, 16>>, <<34, 157>>)
      [] c = "fanlamp_pro_v1" ->
            FanLampEncoderV1("fanlamp_pro_v1", 131, FALSE, FALSE, <<119, 248>>, 25, 3)
      [] c = "fanlamp_pro_v1/r0" -> FanLampEncoderV1b("fanlamp_pro_v1", <<240, 255>>, 25, 255)
      [] c = "lampsmart_pro_v1" ->
            FanLampEncoderV1("lampsmart_pro_v1", 129, TRUE, FALSE, <<119, 248>>, 25, 3)
      [] c = "lelight" -> LeEncoder("lelight", <<255, 255, 255, 255>>)

(***************************************************************************)
(* codecs/models.py: BleAdvCodec.decode_adv and BleAdvCodec.encode_advs,   *)
(* with the subclass methods dispatched on the codec's class.              *)
(***************************************************************************)
decrypt(c, buffer) ==
    CASE c.cls = "ZhijiaEncoderV0" -> ZhijiaEncoderV0_decrypt(buffer)
      [] c.cls = "ZhijiaEncoderV1" -> ZhijiaEncoderV1_decrypt(buffer)
      [] c.cls = "ZhijiaEncoderV2" -> ZhijiaEncoderV2_decrypt(buffer)
      [] c.cls \in {"FanLampEncoderV1", "FanLampEncoderV1b"} -> FanLampEncoderV1Base_decrypt(buffer)
      [] c.cls = "LeEncoder" -> LeEncoder_decrypt(c, buffer)

encrypt(c, buffer) ==
    CASE c.cls = "ZhijiaEncoderV0" -> ZhijiaEncoderV0_encrypt(buffer)
      [] c.cls = "ZhijiaEncoderV1" -> ZhijiaEncoderV1_encrypt(buffer)
      [] c.cls = "ZhijiaEncoderV2" -> ZhijiaEncoderV2_encrypt(buffer)
      [] c.cls \in {"FanLampEncoderV1", "FanLampEncoderV1b"} -> FanLampEncoderV1Base_encrypt(buffer)
      [] c.cls = "LeEncoder" -> LeEncoder_encrypt(c, buffer)

convert_to_enc(c, decoded) ==
    CASE c.cls = "ZhijiaEncoderV0" -> ZhijiaEncoderV0_convert_to_enc(decoded)
      [] c.cls = "ZhijiaEncoderV1" -> ZhijiaEncoderV1_convert_to_enc(decoded, c.mac)
      [] c.cls = "ZhijiaEncoderV2" -> ZhijiaEncoderV2_convert_to_enc(decoded, c.mac)
      [] c.cls = "FanLampEncoderV1" -> FanLampEncoderV1_convert_to_enc(c, decoded)
      [] c.cls = "FanLampEncoderV1b" -> FanLampEncoderV1b_convert_to_enc(c, decoded)
      [] c.cls = "LeEncoder" -> LeEncoder_convert_to_enc(decoded)

\* BleAdvCodec.convert_multi_from_enc: [convert_from_enc(...)] unless overridden
convert_multi_from_enc(c, enc_cmd, conf) ==
    IF c.cls = "FanLampEncoderV1b" THEN FanLampEncoderV1b_convert_multi_from_enc(c, enc_cmd, conf)
    ELSE LET one == CASE c.cls = "ZhijiaEncoderV0" -> ZhijiaEncoderV0_convert_from_enc(enc_cmd, conf)
                      [] c.cls = "ZhijiaEncoderV1" ->
                            ZhijiaEncoderV1_convert_from_enc(enc_cmd, conf, c.mac)
                      [] c.cls = "ZhijiaEncoderV2" ->
                            ZhijiaEncoderV2_convert_from_enc(enc_cmd, conf, c.mac)
                      [] c.cls = "FanLampEncoderV1" ->
                            FanLampEncoderV1_convert_from_enc(c, enc_cmd, conf)
                      [] c.cls = "LeEncoder" -> LeEncoder_convert_from_enc(enc_cmd, conf)
         IN  [raised |-> one.raised, bufs |-> IF one.raised THEN <<>> ELSE <<one.buf>>]

decode_adv(c, adv) ==
    LET last_pos == Len(adv.raw) - Len(c.footer)
    IN  IF \/ ~is_eq(c.ble_type, adv.ble_type)
           \/ ~is_eq(c.len, last_pos - Len(c.header) - c.header_start_pos)
           \/ ~is_eq_buf(c.header, PyFrom(adv.raw, c.header_start_pos))
           \/ ~is_eq_buf(c.footer, PyFrom(adv.raw, last_pos))
        THEN DecNone
        ELSE LET checked(read_buffer) ==
                     IF read_buffer.st = "raise" THEN DecRaise
                     ELSE IF read_buffer.st = "none" \/ ~is_eq_buf(c.prefix, read_buffer.buf)
                          THEN DecNone
                          ELSE convert_to_enc(c, PyFrom(read_buffer.buf, Len(c.prefix)))
                 buffer == PySlice(adv.raw, 0, c.header_start_pos)
                           \o PySlice(adv.raw, c.header_start_pos + Len(c.header), last_pos)
             IN  CHOOSE out \in {checked(x) : x \in {decrypt(c, buffer)}} : TRUE

\* a variant of encode_advs_conf that lets app_restart_count run past 254
encode_advs_conf_restart_unbounded(c, conf, rnd) ==
    LET tx_count == (conf.tx_count + c.tx_step) % c.tx_max
    IN  [conf EXCEPT
            !.tx_count = tx_count,
            !.app_restart_count =
                IF tx_count = 0 THEN conf.app_restart_count + 1 ELSE conf.app_restart_count,
            !.seed = IF conf.seed = 0 /\ c.seed_max > 0 THEN rnd ELSE conf.seed]

\* a variant of encode_advs_conf that assigns the seed on every call
encode_advs_conf_seed_every_call(c, conf, rnd) ==
    LET tx_count == (conf.tx_count + c.tx_step) % c.tx_max
    IN  [conf EXCEPT
            !.tx_count = tx_count,
            !.app_restart_count =
                IF tx_count = 0 THEN (conf.app_restart_count + 1) % 255
                ELSE conf.app_restart_count,
            !.seed = IF c.seed_max > 0 THEN rnd ELSE conf.seed]

\* encode_advs, its first statements: the Config's counters and seed.
\* rnd is the value randint(1, seed_max) returns when it is called.
encode_advs_conf(c, conf, rnd) ==
    LET tx_count == (conf.tx_count + c.tx_step) % c.tx_max
    IN  [conf EXCEPT
            !.tx_count = tx_count,
            !.app_restart_count =
                IF tx_count = 0 THEN (conf.app_restart_count + 1) % 255
                ELSE conf.app_restart_count,
            !.seed = IF conf.seed = 0 /\ c.seed_max > 0 THEN rnd ELSE conf.seed]

encode_advs(c, enc_cmd, conf, rnd) ==
    LET conf1 == encode_advs_conf(c, conf, rnd)
        framed(encrypted) ==
            BleAdvAdvertisement(c.ble_type,
                                PySlice(encrypted, 0, c.header_start_pos) \o c.header
                                \o PyFrom(encrypted, c.header_start_pos) \o c.footer,
                                c.ad_flag)
        wrap(read_buffer) ==
            CHOOSE out \in {framed(x) : x \in {encrypt(c, c.prefix \o read_buffer)}} : TRUE
        built(read_buffers) ==
            [conf |-> conf1, raised |-> read_buffers.raised,
             advs |-> [i \in 1..Len(read_buffers.bufs) |-> wrap(read_buffers.bufs[i])]]
    IN  CHOOSE out \in {built(x) : x \in {convert_multi_from_enc(c, enc_cmd, conf1)}} : TRUE

(***************************************************************************)
(* Encoder commands the translator tables create (Trans.ent_to_enc of a    *)
(* table entry, here with sample attribute values), per codec.             *)
(***************************************************************************)
CMDS_V0 ==
    { BleAdvEncCmd(181, 0, 0, 1, 244),     \* br 0.5 split by 1000 -> EncCmd(0xB5)
      BleAdvEncCmd(166, 0, 1, 0, 0) }      \* LightCmd(1) on       -> EncCmd(0xA6), arg0 1

CMDS_V1 ==
    { BleAdvEncCmd(165, 0, 0, 0, 0),       \* LightCmd on   -> EncCmd(0xA5)
      BleAdvEncCmd(173, 0, 125, 0, 0) }    \* br 0.5 by 250 -> EncCmd(0xAD)

CMDS_V2 ==
    { BleAdvEncCmd(165, 0, 0, 0, 0),       \* LightCmd on          -> EncCmd(0xA5)
      BleAdvEncCmd(202, 0, 250, 125, 0) }  \* RGBLightCmd(1) r g b -> EncCmd(0xCA)

CMDS_V2_FL ==
    { BleAdvEncCmd(165, 0, 0, 0, 0),       \* LightCmd on          -> EncCmd(0xA5)
      BleAdvEncCmd(168, 0, 250, 125, 0) }  \* cold 1.0, warm 0.5   -> EncCmd(0xA8)

CMDS_V2_SPLIT ==
    { BleAdvEncCmd(165, 0, 0, 0, 0),       \* LightCmd / ColdLightCmd on -> EncCmd(0xA5)
      BleAdvEncCmd(168, 0, 125, 0, 0) }    \* ColdLightCmd br 0.5        -> EncCmd(0xA8)

CMDS_FANLAMP_V1 ==
    { BleAdvEncCmd(40, 0, 0, 0, 0),        \* pair                  -> EncCmd(0x28)
      BleAdvEncCmd(18, 0, 0, 0, 0),        \* LightCmd(1) on        -> EncCmd(0x12)
      BleAdvEncCmd(34, 0, 255, 127, 63) }  \* RGBLightCmd(1) r g b  -> EncCmd(0x22)

CMDS_LE ==
    { BleAdvEncCmd(8, 2, 1, 244, 0),       \* br 0.5 split by 1000 -> EncCmd(0x08), param 2
      BleAdvEncCmd(22, 3, 255, 127, 0) }   \* RGBLightCmd r g b    -> EncCmd(0x16), param 3

\* the commands sent through each registered codec
EncCmds(codec_id) ==
    CASE codec_id = "zhijia_v0" -> CMDS_V0
      [] codec_id = "zhijia_v1" -> CMDS_V1
      [] codec_id = "zhijia_v2" -> CMDS_V2
      [] codec_id = "zhijia_v2_fl" -> CMDS_V2_FL
      [] codec_id = "zhijia_v2_split" -> CMDS_V2_SPLIT
      [] codec_id \in {"fanlamp_pro_v1", "fanlamp_pro_v1/r0", "lampsmart_pro_v1"} -> CMDS_FANLAMP_V1
      [] codec_id = "lelight" -> CMDS_LE

(***************************************************************************)
(* Numbers of the entity attributes.  A number is a fraction n/d in lowest *)
(* terms with d > 0; float arithmetic is modelled exactly, and the values  *)
(* the specifications use are ones on which the double arithmetic of the   *)
(* code gives the same integers.  An attribute value is a number or a      *)
(* string; True is the number 1 and False the number 0, as they compare    *)
(* in Python.                                                              *)
(***************************************************************************)
RECURSIVE GCD(_, _)
GCD(a, b) == IF b = 0 THEN a ELSE GCD(b, a % b)

Abs(a) == IF a < 0 THEN -a ELSE a

Num(n, d) ==
    LET g == GCD(Abs(n), Abs(d))
        sgn == IF d < 0 THEN -1 ELSE 1
    IN  [s |-> "", n |-> sgn * (n \div g), d |-> sgn * (d \div g)]

Str(s) == [s |-> s, n |-> 0, d |-> 1]

None == Str("None")

PyTrue == Num(1, 1)

\* a * b of two numbers
float_mul(a, b) == Num(a.n * b.n, a.d * b.d)

\* 1.0 / a
float_inv(a) == Num(a.d, a.n)

\* a >= b of two numbers
float_ge(a, b) == a.n * b.d >= b.n * a.d

\* int(a): the integer part, rounding toward zero
py_int(a) == IF a.n >= 0 THEN a.n \div a.d ELSE -((-a.n) \div a.d)

\* dict.get(attr, default)
dict_get(attrs, attr, default) == IF attr \in DOMAIN attrs THEN attrs[attr] ELSE default

(***************************************************************************)
(* codecs/models.py: BleAdvEntAttr, EntityMatcher, EncoderMatcher, Trans   *)
(***************************************************************************)
BleAdvEntAttr(changed_attrs, attrs, base_type, index) ==
    [chg_attrs |-> changed_attrs, attrs |-> attrs, base_type |-> base_type, index |-> index]

\* a matcher as its builder calls leave it: eqs, mins and maxs are the items
\* of the dicts in insertion order
EntityMatcher(base_type, index, actions, eqs, mins, maxs) ==
    [base_type |-> base_type, index |-> index, actions |-> actions,
     eqs |-> eqs, mins |-> mins, maxs |-> maxs]

\* EncCmd(cmd) with its eq(...) calls; mins and maxs are empty until min(...)
\* or max(...) is called
EncoderMatcher(cmd, eqs) == [cmd |-> cmd, eqs |-> eqs, mins |-> <<>>, maxs |-> <<>>]

\* CommonMatcher.min and CommonMatcher.max on an EncoderMatcher
EncoderMatcher_min(m, attr, attr_val) == [m EXCEPT !.mins = @ \o <<<<attr, attr_val>>>>]

EncoderMatcher_max(m, attr, attr_val) == [m EXCEPT !.maxs = @ \o <<<<attr, attr_val>>>>]

\* a variant of EncoderMatcher.matches that compares the command byte only
EncoderMatcher_matches_cmd_only(m, enc_cmd) == enc_cmd.cmd = m.cmd

\* EncoderMatcher.matches
EncoderMatcher_matches(m, enc_cmd) ==
    /\ enc_cmd.cmd = m.cmd
    /\ \A i \in 1..Len(m.eqs) : enc_cmd[m.eqs[i][1]] = m.eqs[i][2]
    /\ \A i \in 1..Len(m.mins) : enc_cmd[m.mins[i][1]] >= m.mins[i][2]
    /\ \A i \in 1..Len(m.maxs) : enc_cmd[m.maxs[i][1]] <= m.maxs[i][2]

\* all(ent_attr.attrs.get(attr) >= val ...) when ge, (... <= val ...) otherwise,
\* from item i on: comparing None with a number raises TypeError, and all()
\* stops at the first False
RECURSIVE all_cmp(_, _, _, _)
all_cmp(items, attrs, ge, i) ==
    IF i > Len(items) THEN "True"
    ELSE LET v == dict_get(attrs, items[i][1], None)
         IN  IF v = None THEN "raise"
             ELSE IF (IF ge THEN float_ge(v, items[i][2]) ELSE float_ge(items[i][2], v))
                  THEN all_cmp(items, attrs, ge, i + 1)
                  ELSE "False"

\* EntityMatcher.matches: "True", "False", or "raise" for the TypeError
EntityMatcher_matches(m, ent_attr) ==
    IF ~( /\ m.base_type = ent_attr.base_type
          /\ m.index = ent_attr.index
          /\ \E i \in 1..Len(m.actions) : m.actions[i] \in ent_attr.chg_attrs
          /\ \A i \in 1..Len(m.eqs) : dict_get(ent_attr.attrs, m.eqs[i][1], None) = m.eqs[i][2] )
    THEN "False"
    ELSE LET mins == all_cmp(m.mins, ent_attr.attrs, TRUE, 1)
         IN  IF mins # "True" THEN mins ELSE all_cmp(m.maxs, ent_attr.attrs, FALSE, 1)

\* EntityMatcher.create
EntityMatcher_create(m) ==
    BleAdvEntAttr({m.actions[i] : i \in 1..Len(m.actions)},
                  [a \in {m.eqs[i][1] : i \in 1..Len(m.eqs)} |->
                      m.eqs[CHOOSE i \in 1..Len(m.eqs) :
                                /\ m.eqs[i][1] = a
                                /\ \A j \in (i + 1)..Len(m.eqs) : m.eqs[j][1] # a][2]],
                  m.base_type, m.index)

\* setattr(enc_cmd, eq_attr, eq_val) for the items of eqs from item i on
RECURSIVE set_attrs(_, _, _)
set_attrs(enc_cmd, eqs, i) ==
    IF i > Len(eqs) THEN enc_cmd
    ELSE set_attrs([enc_cmd EXCEPT ![eqs[i][1]] = eqs[i][2]], eqs, i + 1)

\* EncoderMatcher.create
EncoderMatcher_create(m) == set_attrs(BleAdvEncCmd(m.cmd, 0, 0, 0, 0), m.eqs, 1)

NoScopy == [set |-> FALSE, attr_ent |-> "", dests |-> <<>>, factor |-> Num(1, 1), modulo |-> 256]

\* Trans(ent, enc) with its copy(...) calls and its split_copy(...) call;
\* direct and reverse are True until no_direct() or no_reverse() is called
Trans(ent, enc, copies, scopy) ==
    [ent |-> ent, enc |-> enc, copies |-> copies, scopy |-> scopy,
     direct |-> TRUE, reverse |-> TRUE]

\* Trans.no_direct
no_direct(t) == [t EXCEPT !.direct = FALSE]

\* Trans.no_reverse
no_reverse(t) == [t EXCEPT !.reverse = FALSE]

copy(attr_ent, attr_enc, factor) == [attr_ent |-> attr_ent, attr_enc |-> attr_enc, factor |-> factor]

split_copy(attr_ent, dests, factor, modulo) ==
    [set |-> TRUE, attr_ent |-> attr_ent, dests |-> dests, factor |-> factor, modulo |-> modulo]

\* a variant of the loop over the copies that rounds to the nearest integer
RECURSIVE ent_to_enc_copies_nearest(_, _, _, _)
ent_to_enc_copies_nearest(enc_cmd, copies, attrs, i) ==
    IF i > Len(copies) THEN enc_cmd
    ELSE LET scaled == float_mul(copies[i].factor, dict_get(attrs, copies[i].attr_ent, Num(0, 1)))
         IN  ent_to_enc_copies_nearest(
                 [enc_cmd EXCEPT ![copies[i].attr_enc] =
                     (2 * scaled.n + scaled.d) \div (2 * scaled.d)],
                 copies, attrs, i + 1)

\* ent_to_enc, the loop over the copies from copy i on
RECURSIVE ent_to_enc_copies(_, _, _, _)
ent_to_enc_copies(enc_cmd, copies, attrs, i) ==
    IF i > Len(copies) THEN enc_cmd
    ELSE ent_to_enc_copies(
             [enc_cmd EXCEPT ![copies[i].attr_enc] =
                 py_int(float_mul(copies[i].factor, dict_get(attrs, copies[i].attr_ent, Num(0, 1))))],
             copies, attrs, i + 1)

\* a variant of the loop over the dests that writes the highest digit first
RECURSIVE ent_to_enc_split_high_first(_, _, _, _, _)
ent_to_enc_split_high_first(enc_cmd, dests, modulo, val, i) ==
    IF i > Len(dests) THEN enc_cmd
    ELSE ent_to_enc_split_high_first([enc_cmd EXCEPT ![dests[Len(dests) + 1 - i]] = val % modulo],
                                     dests, modulo, py_int(Num(val, modulo)), i + 1)

\* ent_to_enc, the loop over the dests of the split copy from dest i on
RECURSIVE ent_to_enc_split(_, _, _, _, _)
ent_to_enc_split(enc_cmd, dests, modulo, val, i) ==
    IF i > Len(dests) THEN enc_cmd
    ELSE ent_to_enc_split([enc_cmd EXCEPT ![dests[i]] = val % modulo], dests, modulo,
                          py_int(Num(val, modulo)), i + 1)

\* Trans.ent_to_enc; ent_attr.attrs[attr_ent] raises KeyError when the
\* attribute of the split copy is missing
Trans_ent_to_enc(tr, ent_attr) ==
    LET enc_cmd == ent_to_enc_copies(EncoderMatcher_create(tr.enc), tr.copies, ent_attr.attrs, 1)
    IN  IF ~tr.scopy.set THEN [st |-> "ok", cmd |-> enc_cmd]
        ELSE IF tr.scopy.attr_ent \notin DOMAIN ent_attr.attrs THEN [st |-> "raise", cmd |-> NoEnc]
        ELSE [st |-> "ok",
              cmd |-> ent_to_enc_split(enc_cmd, tr.scopy.dests, tr.scopy.modulo,
                          py_int(float_mul(tr.scopy.factor, ent_attr.attrs[tr.scopy.attr_ent])), 1)]

\* enc_to_ent, the loop over reversed(dests): dests i down to 1
RECURSIVE enc_to_ent_fold(_, _, _, _, _)
enc_to_ent_fold(enc_cmd, dests, modulo, val, i) ==
    IF i = 0 THEN val
    ELSE enc_to_ent_fold(enc_cmd, dests, modulo, modulo * val + enc_cmd[dests[i]], i - 1)

\* a variant of the loop over the copies that scales by factor again
RECURSIVE enc_to_ent_copies_by_factor(_, _, _, _)
enc_to_ent_copies_by_factor(attrs, copies, enc_cmd, i) ==
    IF i > Len(copies) THEN attrs
    ELSE enc_to_ent_copies_by_factor(
             [a \in DOMAIN attrs \cup {copies[i].attr_ent} |->
                 IF a = copies[i].attr_ent
                 THEN float_mul(copies[i].factor, Num(enc_cmd[copies[i].attr_enc], 1))
                 ELSE attrs[a]],
             copies, enc_cmd, i + 1)

\* enc_to_ent, the loop over the copies from copy i on
RECURSIVE enc_to_ent_copies(_, _, _, _)
enc_to_ent_copies(attrs, copies, enc_cmd, i) ==
    IF i > Len(copies) THEN attrs
    ELSE enc_to_ent_copies(
             [a \in DOMAIN attrs \cup {copies[i].attr_ent} |->
                 IF a = copies[i].attr_ent
                 THEN float_mul(float_inv(copies[i].factor), Num(enc_cmd[copies[i].attr_enc], 1))
                 ELSE attrs[a]],
             copies, enc_cmd, i + 1)

\* Trans.matches_ent: "True", "False", or "raise" for the TypeError of the
\* entity matcher
Trans_matches_ent(t, ent_attr) ==
    IF ~t.direct THEN "False" ELSE EntityMatcher_matches(t.ent, ent_attr)

\* Trans.matches_enc
Trans_matches_enc(t, enc_cmd) == t.reverse /\ EncoderMatcher_matches(t.enc, enc_cmd)

\* Trans.enc_to_ent
Trans_enc_to_ent(tr, enc_cmd) ==
    LET ent_attr == EntityMatcher_create(tr.ent)
        attrs1 == IF ~tr.scopy.set THEN ent_attr.attrs
                  ELSE [a \in DOMAIN ent_attr.attrs \cup {tr.scopy.attr_ent} |->
                           IF a = tr.scopy.attr_ent
                           THEN float_mul(float_inv(tr.scopy.factor),
                                          Num(enc_to_ent_fold(enc_cmd, tr.scopy.dests, tr.scopy.modulo,
                                                              0, Len(tr.scopy.dests)), 1))
                           ELSE ent_attr.attrs[a]]
    IN  [ent_attr EXCEPT !.attrs = enc_to_ent_copies(attrs1, tr.copies, enc_cmd, 1)]


(***************************************************************************)
(* Bounds and input sets of the codec-level specification.                 *)
(***************************************************************************)
MaxSends == 2

\* Configs a sender starts from: ids 0x3024 and 0xC485 (two bytes) and 0x12C085
\* (three bytes); tx_count next to its wrap
Configs ==
    { [id |-> 12324, index |-> 1, tx_count |-> 0, app_restart_count |-> 1, seed |-> 0],
      [id |-> 12324, index |-> 17, tx_count |-> 124, app_restart_count |-> 254, seed |-> 4660],
      [id |-> 50309, index |-> 1, tx_count |-> 123, app_restart_count |-> 1, seed |-> 0],
      [id |-> 1228933, index |-> 1, tx_count |-> 124, app_restart_count |-> 254, seed |-> 0] }

\* values randint(1, seed_max) can return, when encode_advs calls it
SeedDraws(c, seed) == IF seed = 0 /\ c.seed_max > 0 THEN {1, c.seed_max} ELSE {0}

\* advertisements no modelled codec sent
ForeignAdvs ==
    { BleAdvAdvertisement(255, <<1, 2>>, 0),
      BleAdvAdvertisement(255, <<249, 8, 73>> \o Zeros(13), 26),
      BleAdvAdvertisement(255, <<255, 255, 255, 255, 3, 1, 7, 9>> \o Zeros(17), 26),
      BleAdvAdvertisement(255, <<255, 255, 255, 255, 6, 1, 0, 0, 0, 0, 53>> \o Zeros(14), 26) }

(***************************************************************************)
(* State.  A sender holds one Config and encodes commands with one codec;  *)
(* the advertisements it produced, or a foreign one, are then decoded by   *)
(* every registered codec.                                                 *)
(***************************************************************************)
VARIABLES
    codec,      \* codec id of the sender
    conf,       \* the sender's BleAdvConfig
    advs,       \* advertisements of the last encode_advs call, or a foreign one
    last,       \* the last encode_advs call: command, Config before it, outcome
    rx,         \* the last decode: which advertisement, and every codec's result
    sends,      \* number of encode_advs calls so far
    draws,      \* number of calls of randint
    resets,     \* number of times the caller reset the seed to 0
    tr,         \* a translator (Trans)
    ent,        \* the entity attributes (BleAdvEntAttr) at hand
    mres,       \* outcome of tr.ent.matches(ent), "" before the call
    enc,        \* outcome of tr.ent_to_enc(ent)
    back,       \* outcome of tr.enc_to_ent of the command in enc
    devices,    \* coordinator._devices, as unique ids in registration order
    config,     \* each device's BleAdvConfig
    in_use,     \* coordinator._in_use_codecs
    emit_last,  \* keys of coordinator._emit_last_advs
    raw_last,   \* keys of coordinator._raw_last_advs
    dec_last,   \* coordinator._dec_last_advs: payload -> number of its BleAdvRecvItem
    items,      \* every BleAdvRecvItem created so far
    queue,      \* per adapter, the queue items handed to enqueue
    air,        \* raw advertisements an adapter can hear
    applies,    \* per device, the number of apply_cmd calls
    recvs,      \* number of handle_raw_adv calls
    decoded,    \* outcome of the last coordinator.decode_raw
    rcodec,     \* codec id of the codec that receives an advertisement
    radv,       \* the advertisement received
    rdec,       \* outcome of codec.decode_adv(radv)
    rmatch,     \* per table entry, whether its EncoderMatcher matches the decoded command
    rents,      \* outcome of codec.enc_to_ent of the decoded command
    rencs,      \* outcome of codec.ent_to_enc of the first entity attributes in rents
    readv,      \* outcome of codec.encode_advs of the first command in rencs
    pool,       \* the Trans objects built so far; an object is its index
    held,       \* per codec, _translators as references into pool
    called,     \* the objects no_direct() and no_reverse() were called on
    glast,      \* the last registration or translation call
    scodec,     \* codec id of the instance the devices share
    inst,       \* the attributes of the one codec instance the devices share
    sconf,      \* per device, its BleAdvConfig
    solo,       \* per device, its BleAdvConfig when its calls run alone on an instance of its own
    slast,      \* the last call on the shared instance, its outcome and the outcome alone
    scalls,     \* number of calls on the shared instance
    pin,        \* the function called and its arguments
    pout,       \* what the function returned
    hci,        \* the adapter: its queues, their index, their locks, the event, the flags
    dq,         \* the _dequeue task: where it waits, the chunk it advertises, the lock delay
    alog,       \* what was enqueued, which items were replaced, what was advertised
    drn,        \* the drain() call: not made, polling or returned, and what held at its return
    co,         \* the coordinator with its expiry times: devices, caches, listening mode
    clock,      \* datetime.now(), in milliseconds since the coordinator was built
    wlog,       \* what was handed to the adapters, what was delivered, the last reception
    wtab,       \* what the codecs make of the buffers, computed when the coordinator is built
    sck,        \* an AsyncSocket: its socket, its flag, its receive task, the callers of its methods
    scklog,     \* the receive loops started, how the last one ended, the error callbacks made
    bt,         \* a BluetoothHCIAdapter with its manager: flags, locks, controller, the _advertise calls
    btlog,      \* what was written to the sockets and slept, how the last _advertise call ended
    mg,         \* a BleAdvBtHciManager: its flags, its adapters, its _acquire_connection task
    mglog,      \* the refresh requests, the failed attempts, the adapters the last attempt discovered
    dv,         \* a BleAdvDevice with its entities: is_on of each, _timer_cancel, the callbacks Home Assistant holds
    utcnow,     \* dt_util.utcnow(), in seconds since the device was built
    dvlog,      \* the timers scheduled, fired and cancelled so far and the last step
    vraw,       \* the raw advertisement a zhijia_v0 receiver is given
    vt,         \* what the steps of decoding, translating and re-encoding it returned
    fin,        \* async_final and async_init calls of the adapter, the tasks left over from before async_final, the errors raised or reported
    hc          \* per command channel (the HCI socket of an adapter, the MGMT socket of the manager): the command state, the Command Complete events under way, the results returned

codecVars == <<codec, conf, advs, last, rx, sends, draws, resets>>

transVars == <<tr, ent, mres, enc, back>>

coordVars ==
    <<devices, config, in_use, emit_last, raw_last, dec_last, items, queue, air, applies,
      recvs, decoded>>

regVars == <<rcodec, radv, rdec, rmatch, rents, rencs, readv>>

gateVars == <<pool, held, called, glast>>

shareVars == <<scodec, inst, sconf, solo, slast, scalls>>

pureVars == <<pin, pout>>

adapterVars == <<hci, dq, alog, drn>>

windowVars == <<co, clock, wlog, wtab>>

sockVars == <<sck, scklog>>

btVars == <<bt, btlog>>

mgrVars == <<mg, mglog>>

timerVars == <<dv, utcnow, dvlog>>

vectorVars == <<vraw, vt>>

finalVars == <<fin>>

cmdVars == <<hc>>

\* the variables of the specifications that follow the first three
restVars == <<regVars, gateVars, shareVars, pureVars, adapterVars, windowVars, sockVars, btVars, mgrVars, timerVars, vectorVars, finalVars, cmdVars>>

baseVars == <<codecVars, transVars, coordVars>>

\* what an action of each of those specifications leaves alone
besideReg == <<baseVars, gateVars, shareVars, pureVars, adapterVars, windowVars, sockVars, btVars, mgrVars, timerVars, vectorVars, finalVars, cmdVars>>

besideGate == <<baseVars, regVars, shareVars, pureVars, adapterVars, windowVars, sockVars, btVars, mgrVars, timerVars, vectorVars, finalVars, cmdVars>>

besideShare == <<baseVars, regVars, gateVars, pureVars, adapterVars, windowVars, sockVars, btVars, mgrVars, timerVars, vectorVars, finalVars, cmdVars>>

besidePure == <<baseVars, regVars, gateVars, shareVars, adapterVars, windowVars, sockVars, btVars, mgrVars, timerVars, vectorVars, finalVars, cmdVars>>

besideAdapter == <<baseVars, regVars, gateVars, shareVars, pureVars, windowVars, sockVars, btVars, mgrVars, timerVars, vectorVars, finalVars, cmdVars>>

besideWindow == <<baseVars, regVars, gateVars, shareVars, pureVars, adapterVars, sockVars, btVars, mgrVars, timerVars, vectorVars, finalVars, cmdVars>>

besideSock == <<baseVars, regVars, gateVars, shareVars, pureVars, adapterVars, windowVars, btVars, mgrVars, timerVars, vectorVars, finalVars, cmdVars>>

besideBt == <<baseVars, regVars, gateVars, shareVars, pureVars, adapterVars, windowVars, sockVars, mgrVars, timerVars, vectorVars, finalVars, cmdVars>>

besideMgr == <<baseVars, regVars, gateVars, shareVars, pureVars, adapterVars, windowVars, sockVars, btVars, timerVars, vectorVars, finalVars, cmdVars>>

besideTimer == <<baseVars, regVars, gateVars, shareVars, pureVars, adapterVars, windowVars, sockVars, btVars, mgrVars, vectorVars, finalVars, cmdVars>>

besideVector == <<baseVars, regVars, gateVars, shareVars, pureVars, adapterVars, windowVars, sockVars, btVars, mgrVars, timerVars, finalVars, cmdVars>>

besideFinal == <<baseVars, regVars, gateVars, shareVars, pureVars, adapterVars, windowVars, sockVars, btVars, mgrVars, timerVars, vectorVars, cmdVars>>

besideCmd == <<baseVars, regVars, gateVars, shareVars, pureVars, adapterVars, windowVars, sockVars, btVars, mgrVars, timerVars, vectorVars, finalVars>>

vars == <<baseVars, restVars>>

NoLast == [op |-> "none", cmd |-> NoEnc, pre |-> NoConf, raised |-> FALSE]

NoRx == [i |-> 0, res |-> [o \in CodecIds |-> DecNone]]

NoTrans == Trans(EntityMatcher("", 0, <<>>, <<>>, <<>>, <<>>), EncoderMatcher(0, <<>>), <<>>, NoScopy)

NoAttrs == [a \in {} |-> None]

NoEntAttr == BleAdvEntAttr({}, NoAttrs, "", 0)

NoEncRes == [st |-> "", cmd |-> NoEnc]

NoBack == [st |-> "", ent |-> NoEntAttr]

NoDec == [st |-> "", enc |-> NoEnc, conf |-> NoConf]

NoEnts == [st |-> "", ents |-> <<>>]

NoCmds == [st |-> "", cmds |-> <<>>]

NoReAdv == [st |-> "", advs |-> <<>>, conf |-> NoConf]

\* no codec receiving
RegIdle ==
    /\ rcodec = ""
    /\ radv = BleAdvAdvertisement(0, <<>>, 0)
    /\ rdec = NoDec
    /\ rmatch = <<>>
    /\ rents = NoEnts
    /\ rencs = NoCmds
    /\ readv = NoReAdv

NoGate == [op |-> "", codec_id |-> "", given |-> <<>>, pre |-> <<>>, took |-> {}]

\* no registration at work
GateIdle ==
    /\ pool = <<>>
    /\ held = <<>>
    /\ called = [nd |-> {}, nr |-> {}]
    /\ glast = NoGate

\* what a call on a codec returned: encode_advs its list, or that it raised; decode_adv its pair
ShareOut(raised, advs_, dec) == [raised |-> raised, advs |-> advs_, dec |-> dec]

NoShare ==
    [dev |-> "", op |-> "", got |-> ShareOut(FALSE, <<>>, DecNone),
     alone |-> ShareOut(FALSE, <<>>, DecNone)]

\* no shared instance at work
ShareIdle ==
    /\ scodec = ""
    /\ inst = <<>>
    /\ sconf = <<>>
    /\ solo = <<>>
    /\ slast = NoShare
    /\ scalls = 0

NoPure == [fn |-> ""]

\* no function called
PureIdle ==
    /\ pin = NoPure
    /\ pout = NoPure

NoAdapter == [queues_index |-> <<>>, queues |-> <<>>, locked_tasks |-> <<>>, qlen |-> 0,
              add_event |-> FALSE, cur_ind |-> -1, processing |-> FALSE,
              advertise_on_going |-> FALSE]

NoAdvItem == [adv |-> [interval |-> 0, repeat |-> 0, data |-> <<>>, ign_duration |-> 0], no |-> 0]

NoDequeue == [pc |-> "", item |-> NoAdvItem, lock_delay |-> 0]

NoLog == [enq |-> <<>>, replaced |-> {}, advertised |-> <<>>]

NoDrain == [pc |-> "", in_flight |-> FALSE, complete |-> TRUE]

\* no adapter at work
AdapterIdle ==
    /\ hci = NoAdapter
    /\ dq = NoDequeue
    /\ alog = NoLog
    /\ drn = NoDrain

NoCoord ==
    [devices |-> <<>>, config |-> <<>>, in_use |-> <<>>,
     raw_last |-> <<>>, emit_last |-> <<>>, dec_last |-> <<>>, items |-> <<>>,
     stop_listening_time |-> -1, listened_raw_advs |-> <<>>,
     listened_decoded_confs |-> <<>>]

NoReception ==
    [raw |-> <<>>, adapter_id |-> "", at |-> 0, pub |-> {}, decoded |-> FALSE,
     listened |-> FALSE, accepted |-> {}, last_expiry |-> -1, max_expiry |-> -1, again |-> {}, missed |-> {}]

NoWinLog ==
    [handed |-> <<>>, deliv |-> <<>>, recv |-> NoReception, sends |-> 0, recvs |-> 0,
     ticks |-> 0, listens |-> 0]

\* no coordinator with a clock at work
WindowIdle ==
    /\ co = NoCoord
    /\ clock = 0
    /\ wlog = NoWinLog
    /\ wtab = <<>>

NoSock ==
    [socket |-> "none", pending |-> "none", functional_recv_started |-> FALSE,
     ready_recv_event |-> FALSE, recv_task |-> "none", start |-> "idle", phase |-> "new"]

NoSockLog ==
    [loops |-> 0, completed |-> FALSE, ended |-> "", completed_at_end |-> FALSE,
     on_error |-> 0, closed |-> 0, recvd |-> 0]

\* no socket at work
SockIdle ==
    /\ sck = NoSock
    /\ scklog = NoSockLog

NoBt ==
    [opened |-> FALSE, mode |-> "", mgmt_opened |-> FALSE, adv_lock |-> 0, cmd_lock |-> 0,
     mgmt_cmd_lock |-> 0, adv_enabled |-> FALSE, calls |-> <<>>]

NoBtLog ==
    [written |-> <<>>, last_end |-> "", wrote_closed |-> FALSE, timeouts |-> 0, inits |-> 0]

\* no HCI adapter at work
BtIdle ==
    /\ bt = NoBt
    /\ btlog = NoBtLog

NoMgr ==
    [reconnecting |-> FALSE, mgmt_opened |-> FALSE, mgmt_sock |-> FALSE, adapters |-> <<>>,
     pc |-> "none", todo |-> <<>>, advertising |-> {}]

NoMgrLog ==
    [launches |-> 0, ignored |-> 0, fails |-> 0, discovered |-> {}, attempts |-> 0,
     shut |-> [done |-> FALSE, launches |-> 0, attempts |-> 0]]

\* no HCI manager at work
MgrIdle ==
    /\ mg = NoMgr
    /\ mglog = NoMgrLog

NoDevice == [is_on |-> <<>>, timer_cancel |-> 0, tracked |-> {}]

NoDeviceLog == [timers |-> 0, fired |-> {}, cancelled |-> {}, last |-> [op |-> "none", id |-> 0]]

\* no device with a timer at work
TimerIdle ==
    /\ dv = NoDevice
    /\ utcnow = 0
    /\ dvlog = NoDeviceLog

NoVector ==
    [adv |-> BleAdvAdvertisement(0, <<>>, 0), parsed |-> FALSE, dec |-> NoDec, ents |-> NoEnts,
     encs |-> NoCmds, tx_step |-> 0, readv |-> NoReAdv]

\* no recorded advertisement under test
VectorIdle ==
    /\ vraw = <<>>
    /\ vt = NoVector

NoFinal ==
    [finals |-> 0, inits |-> 0, cleared |-> TRUE, enq_before |-> 0, left_unlock |-> {},
     old |-> [pc |-> "", item |-> [adv |-> [interval |-> 0, repeat |-> 0, data |-> <<>>, ign_duration |-> 0], no |-> 0], lock_delay |-> 0],
     errors |-> {}]

\* no adapter finalised
FinalIdle ==
    /\ fin = NoFinal

NoChannel ==
    [opened |-> FALSE, pc |-> "idle", on_going |-> [dev |-> 0, op |-> 0], ret_code |-> 0,
     ret_from |-> 0, event |-> FALSE, cur |-> 0, sent |-> 0, wire |-> {}, returned |-> {},
     timeouts |-> 0]

\* no command channel
CmdIdle ==
    /\ hc = [ch \in {"hci", "mgmt"} |-> NoChannel]

RestIdle == RegIdle /\ GateIdle /\ ShareIdle /\ PureIdle /\ AdapterIdle /\ WindowIdle /\ SockIdle /\ BtIdle /\ MgrIdle /\ TimerIdle /\ VectorIdle /\ FinalIdle /\ CmdIdle

\* no translator at work
TransIdle ==
    /\ tr = NoTrans
    /\ ent = NoEntAttr
    /\ mres = ""
    /\ enc = NoEncRes
    /\ back = NoBack

\* no sender at work
CodecIdle ==
    /\ codec = "zhijia_v0"
    /\ conf = NoConf
    /\ advs = <<>>
    /\ last = NoLast
    /\ rx = NoRx
    /\ sends = 0
    /\ draws = 0
    /\ resets = 0

\* no coordinator at work
CoordIdle ==
    /\ devices = <<>>
    /\ config = <<>>
    /\ in_use = <<>>
    /\ emit_last = {}
    /\ raw_last = {}
    /\ dec_last = <<>>
    /\ items = <<>>
    /\ queue = <<>>
    /\ air = {}
    /\ applies = <<>>
    /\ recvs = 0
    /\ decoded = <<>>

IdleBesideReg == CodecIdle /\ TransIdle /\ CoordIdle /\ GateIdle /\ ShareIdle /\ PureIdle /\ AdapterIdle /\ WindowIdle /\ SockIdle /\ BtIdle /\ MgrIdle /\ TimerIdle /\ VectorIdle /\ FinalIdle /\ CmdIdle

IdleBesideGate == CodecIdle /\ TransIdle /\ CoordIdle /\ RegIdle /\ ShareIdle /\ PureIdle /\ AdapterIdle /\ WindowIdle /\ SockIdle /\ BtIdle /\ MgrIdle /\ TimerIdle /\ VectorIdle /\ FinalIdle /\ CmdIdle

IdleBesideShare == CodecIdle /\ TransIdle /\ CoordIdle /\ RegIdle /\ GateIdle /\ PureIdle /\ AdapterIdle /\ WindowIdle /\ SockIdle /\ BtIdle /\ MgrIdle /\ TimerIdle /\ VectorIdle /\ FinalIdle /\ CmdIdle

IdleBesidePure == CodecIdle /\ TransIdle /\ CoordIdle /\ RegIdle /\ GateIdle /\ ShareIdle /\ AdapterIdle /\ WindowIdle /\ SockIdle /\ BtIdle /\ MgrIdle /\ TimerIdle /\ VectorIdle /\ FinalIdle /\ CmdIdle

IdleBesideAdapter == CodecIdle /\ TransIdle /\ CoordIdle /\ RegIdle /\ GateIdle /\ ShareIdle /\ PureIdle /\ WindowIdle /\ SockIdle /\ BtIdle /\ MgrIdle /\ TimerIdle /\ VectorIdle /\ FinalIdle /\ CmdIdle

IdleBesideWindow == CodecIdle /\ TransIdle /\ CoordIdle /\ RegIdle /\ GateIdle /\ ShareIdle /\ PureIdle /\ AdapterIdle /\ SockIdle /\ BtIdle /\ MgrIdle /\ TimerIdle /\ VectorIdle /\ FinalIdle /\ CmdIdle

IdleBesideSock == CodecIdle /\ TransIdle /\ CoordIdle /\ RegIdle /\ GateIdle /\ ShareIdle /\ PureIdle /\ AdapterIdle /\ WindowIdle /\ BtIdle /\ MgrIdle /\ TimerIdle /\ VectorIdle /\ FinalIdle /\ CmdIdle

IdleBesideBt == CodecIdle /\ TransIdle /\ CoordIdle /\ RegIdle /\ GateIdle /\ ShareIdle /\ PureIdle /\ AdapterIdle /\ WindowIdle /\ SockIdle /\ MgrIdle /\ TimerIdle /\ VectorIdle /\ FinalIdle /\ CmdIdle

IdleBesideMgr == CodecIdle /\ TransIdle /\ CoordIdle /\ RegIdle /\ GateIdle /\ ShareIdle /\ PureIdle /\ AdapterIdle /\ WindowIdle /\ SockIdle /\ BtIdle /\ TimerIdle /\ VectorIdle /\ FinalIdle /\ CmdIdle

IdleBesideTimer == CodecIdle /\ TransIdle /\ CoordIdle /\ RegIdle /\ GateIdle /\ ShareIdle /\ PureIdle /\ AdapterIdle /\ WindowIdle /\ SockIdle /\ BtIdle /\ MgrIdle /\ VectorIdle /\ FinalIdle /\ CmdIdle

IdleBesideVector == CodecIdle /\ TransIdle /\ CoordIdle /\ RegIdle /\ GateIdle /\ ShareIdle /\ PureIdle /\ AdapterIdle /\ WindowIdle /\ SockIdle /\ BtIdle /\ MgrIdle /\ TimerIdle /\ FinalIdle /\ CmdIdle

IdleBesideFinal == CodecIdle /\ TransIdle /\ CoordIdle /\ RegIdle /\ GateIdle /\ ShareIdle /\ PureIdle /\ AdapterIdle /\ WindowIdle /\ SockIdle /\ BtIdle /\ MgrIdle /\ TimerIdle /\ VectorIdle /\ CmdIdle

IdleBesideCmd == CodecIdle /\ TransIdle /\ CoordIdle /\ RegIdle /\ GateIdle /\ ShareIdle /\ PureIdle /\ AdapterIdle /\ WindowIdle /\ SockIdle /\ BtIdle /\ MgrIdle /\ TimerIdle /\ VectorIdle /\ FinalIdle

Init ==
    /\ codec \in CodecIds
    /\ conf \in Configs
    /\ advs = <<>>
    /\ last = NoLast
    /\ rx = NoRx
    /\ sends = 0
    /\ draws = 0
    /\ resets = 0
    /\ TransIdle
    /\ CoordIdle
    /\ RestIdle

\* codec.encode_advs(enc_cmd, conf): the Config is updated before the buffers
\* are built, so it stays updated when building them raises
Encode(enc_cmd, rnd) ==
    /\ sends < MaxSends
    /\ LET c == CODECS(codec)
           r == encode_advs(c, enc_cmd, conf, rnd)
       IN  /\ conf' = r.conf
           /\ advs' = r.advs
           /\ last' = [op |-> "encode", cmd |-> enc_cmd, pre |-> conf, raised |-> r.raised]
           /\ draws' = IF conf.seed = 0 /\ c.seed_max > 0 THEN draws + 1 ELSE draws
    /\ rx' = NoRx
    /\ sends' = sends + 1
    /\ UNCHANGED <<codec, resets, transVars, coordVars, restVars>>

\* An advertisement from elsewhere is received.  decode_adv reads only the
\* codec and the advertisement, so an arrival after another would repeat these.
Inject(adv) ==
    /\ advs = <<>>
    /\ advs' = <<adv>>
    /\ last' = [NoLast EXCEPT !.op = "inject"]
    /\ rx' = NoRx
    /\ UNCHANGED <<codec, conf, sends, draws, resets, transVars, coordVars, restVars>>

\* codec.decode_adv(advs[i]) by every registered codec
Probe(i) ==
    /\ rx.i # i
    /\ rx' = [i |-> i, res |-> [o \in CodecIds |-> decode_adv(CODECS(o), advs[i])]]
    /\ UNCHANGED <<codec, conf, advs, last, sends, draws, resets, transVars, coordVars, restVars>>

\* the caller resets the seed before a send (coordinator.py, apply_cmd)
ResetSeed ==
    /\ conf.seed # 0
    /\ sends < MaxSends
    /\ conf' = [conf EXCEPT !.seed = 0]
    /\ last' = [NoLast EXCEPT !.op = "reset"]
    /\ resets' = resets + 1
    /\ UNCHANGED <<codec, advs, rx, sends, draws, transVars, coordVars, restVars>>

Next ==
    \/ \E enc_cmd \in EncCmds(codec), rnd \in SeedDraws(CODECS(codec), conf.seed) : Encode(enc_cmd, rnd)
    \/ \E adv \in ForeignAdvs : Inject(adv)
    \/ \E i \in 1..Len(advs) : Probe(i)
    \/ ResetSeed

Spec == Init /\ [][Next]_vars

(***************************************************************************)
(* The translator specification: a translator of the codec tables or of    *)
(* the tests is applied to entity attributes.                              *)
(***************************************************************************)
\* brightness and colour temperature values are eighths, up to MaxEighths / 8
MaxEighths == 8

LightCmd(actions, eqs, mins, maxs) == EntityMatcher("light", 0, actions, eqs, mins, maxs)

CTLightCmd(actions, eqs, mins, maxs) ==
    EntityMatcher("light", 0, actions, <<<<"sub_type", Str("cww")>>>> \o eqs, mins, maxs)

Fan6SpeedCmd(actions, eqs, mins, maxs) ==
    EntityMatcher("fan", 0, actions, <<<<"speed_count", Num(6, 1)>>>> \o eqs, mins, maxs)

DeviceCmd(actions, eqs, mins, maxs) == EntityMatcher("device", 0, actions, eqs, mins, maxs)

\* test_models.py, test_trans: LightCmd().act(ATTR_ON, True), EncCmd(0x10), copy br by 255.0
TR_TEST ==
    Trans(LightCmd(<<"on">>, <<<<"on", PyTrue>>>>, <<>>, <<>>), EncoderMatcher(16, <<>>),
          <<copy("br", "arg0", Num(255, 1))>>, NoScopy)

\* zhijia.py, TRANS_V1: CTLightCmd().act(ATTR_BR), EncCmd(0xAD), copy br by 250
TR_V1_BR ==
    Trans(CTLightCmd(<<"br">>, <<>>, <<>>, <<>>), EncoderMatcher(173, <<>>),
          <<copy("br", "arg0", Num(250, 1))>>, NoScopy)

\* zhijia.py, TRANS_V0: Fan6SpeedCmd().act(ATTR_ON, True).act(ATTR_SPEED).min(ATTR_SPEED, 1)
\* .max(ATTR_SPEED, 2), EncCmd(0xD2)
TR_V0_FAN ==
    Trans(Fan6SpeedCmd(<<"on", "speed">>, <<<<"on", PyTrue>>>>,
                       <<<<"speed", Num(1, 1)>>>>, <<<<"speed", Num(2, 1)>>>>),
          EncoderMatcher(210, <<>>), <<>>, NoScopy)

\* le.py: CTLightCmd().act(ATTR_CT).max(ATTR_CT, 0.5), EncCmd(0x0D).eq("param", 2)
\* .eq("arg0", 128), copy ct by 256.0
TR_LE_CT ==
    Trans(CTLightCmd(<<"ct">>, <<>>, <<>>, <<<<"ct", Num(1, 2)>>>>),
          EncoderMatcher(13, <<<<"param", 2>>, <<"arg0", 128>>>>),
          <<copy("ct", "arg1", Num(256, 1))>>, NoScopy)

\* zhijia.py, TRANS_V0: CTLightCmd().act(ATTR_BR), EncCmd(0xB5), split br by 1000.0
TR_V0_BR ==
    Trans(CTLightCmd(<<"br">>, <<>>, <<>>, <<>>), EncoderMatcher(181, <<>>),
          <<>>, split_copy("br", <<"arg2", "arg1">>, Num(1000, 1), 256))

\* zhimei.py: DeviceCmd().act(ATTR_CMD, ATTR_CMD_TIMER), EncCmd(0xA5), split s by 1/60, modulo 60
TR_ZM_TIMER ==
    Trans(DeviceCmd(<<"cmd">>, <<<<"cmd", Str("timer")>>>>, <<>>, <<>>), EncoderMatcher(165, <<>>),
          <<>>, split_copy("s", <<"arg0", "arg1">>, Num(1, 60), 60))

\* fanlamp.py: DeviceCmd().act(ATTR_CMD, ATTR_CMD_TIMER), EncCmd(0x41), split s by 1/60, modulo 256
TR_FL_TIMER ==
    Trans(DeviceCmd(<<"cmd">>, <<<<"cmd", Str("timer")>>>>, <<>>, <<>>), EncoderMatcher(65, <<>>),
          <<>>, split_copy("s", <<"arg0", "arg1">>, Num(1, 60), 256))

TransSamples == {TR_TEST, TR_V1_BR, TR_V0_FAN, TR_LE_CT, TR_V0_BR, TR_ZM_TIMER, TR_FL_TIMER}

\* an attribute with one of the values, or missing
Maybe(attr, values) == {NoAttrs} \cup {attr :> v : v \in values}

LightValues ==
    {Num(k, 8) : k \in 0..MaxEighths} \cup {Num(-1, 8), Num(1, 1024), Num(65, 1), Num(66, 1)}

LightSamples ==
    { BleAdvEntAttr(chg, ("on" :> PyTrue) @@ ("sub_type" :> Str("cww")) @@ br @@ ct, "light", index) :
        chg \in {{"on"}, {"br"}, {"ct"}},
        br \in Maybe("br", LightValues),
        ct \in Maybe("ct", {Num(1, 4), Num(3, 4)}),
        index \in {0, 1} }

FanSamples ==
    { BleAdvEntAttr(chg, ("on" :> PyTrue) @@ ("speed_count" :> Num(6, 1)) @@ speed, "fan", 0) :
        chg \in {{"on"}, {"speed"}, {"dir"}},
        speed \in Maybe("speed", {Num(1, 1), Num(2, 1), Num(3, 1)}) }

DeviceSamples ==
    { BleAdvEntAttr({"cmd"}, ("cmd" :> Str("timer")) @@ secs, "device", 0) :
        secs \in Maybe("s", {Num(t, 1) : t \in {0, 59, 60, 90, 3600, 215940, 216000}}) }

\* entity attributes of the platform the translator is for
EntSamples(t) ==
    CASE t.ent.base_type = "light" -> LightSamples
      [] t.ent.base_type = "fan" -> FanSamples
      [] OTHER -> DeviceSamples

InitTrans ==
    /\ tr \in TransSamples
    /\ ent \in EntSamples(tr)
    /\ mres = ""
    /\ enc = NoEncRes
    /\ back = NoBack
    /\ CodecIdle
    /\ CoordIdle
    /\ RestIdle

\* tr.ent.matches(ent)
MatchesEnt ==
    /\ mres = ""
    /\ mres' = EntityMatcher_matches(tr.ent, ent)
    /\ UNCHANGED <<tr, ent, enc, back, codecVars, coordVars, restVars>>

\* tr.ent_to_enc(ent)
EntToEnc ==
    /\ enc.st = ""
    /\ enc' = Trans_ent_to_enc(tr, ent)
    /\ UNCHANGED <<tr, ent, mres, back, codecVars, coordVars, restVars>>

\* tr.enc_to_ent(enc_cmd) of the command ent_to_enc returned
EncToEnt ==
    /\ enc.st = "ok"
    /\ back.st = ""
    /\ back' = [st |-> "ok", ent |-> Trans_enc_to_ent(tr, enc.cmd)]
    /\ UNCHANGED <<tr, ent, mres, enc, codecVars, coordVars, restVars>>

NextTrans == MatchesEnt \/ EntToEnc \/ EncToEnt

SpecTrans == InitTrans /\ [][NextTrans]_vars

(***************************************************************************)
(* ble_adv_split/coordinator.py: devices and the coordinator.  A device    *)
(* sends a command through its adapters with apply_cmd; every raw          *)
(* advertisement an adapter hears goes through handle_raw_adv.  Expiry     *)
(* times are modelled by the caller saying, at each receive, whether the   *)
(* entries of the three caches have expired.  The coordinator is built     *)
(* with no ignored MAC or company id, and start_listening is not called,   *)
(* so is_listening() is False.                                             *)
(***************************************************************************)
MaxApplies == 1

MaxRecvs == 2

MaxHeard == 1

Range(s) == {s[i] : i \in DOMAIN s}

\* BleAdvAdvertisement.FromRaw, its while loop from rem_data on
FromRawLoop[rem_data \in Seq(Nat), ble_type \in Nat, raw_data \in Seq(Nat)] ==
    IF Len(rem_data) <= 2 THEN [ble_type |-> ble_type, raw_data |-> raw_data]
    ELSE LET part_len  == At(rem_data, 0)
             part_type == At(rem_data, 1)
             hit       == part_type \in {3, 5, 22, 255}
         IN  IF part_len > Len(rem_data) THEN [ble_type |-> ble_type, raw_data |-> raw_data]
             ELSE FromRawLoop[PyFrom(rem_data, part_len + 1),
                              IF hit THEN part_type ELSE ble_type,
                              IF hit THEN PySlice(rem_data, 2, part_len + 1) ELSE raw_data]

FromRaw(raw_adv) ==
    LET r == FromRawLoop[raw_adv, 0, <<>>]
    IN  BleAdvAdvertisement(r.ble_type, IF r.ble_type = 0 THEN raw_adv ELSE r.raw_data, 0)

\* a variant of to_raw whose length byte counts the raw without the type byte
to_raw_short_len(adv) ==
    LET full_raw == IF adv.ble_type # 0 THEN <<Len(adv.raw), adv.ble_type>> \o adv.raw
                    ELSE adv.raw
    IN  IF adv.ad_flag = 0 THEN full_raw ELSE <<2, 1, adv.ad_flag>> \o full_raw

to_raw(adv) ==
    LET full_raw == IF adv.ble_type # 0 THEN <<Len(adv.raw) + 1, adv.ble_type>> \o adv.raw
                    ELSE adv.raw
    IN  IF adv.ad_flag = 0 THEN full_raw ELSE <<2, 1, adv.ad_flag>> \o full_raw

\* the adapters of the HCI manager
Adapters == {"hci0", "hci1"}

\* the codecs the coordinator is built with, in the order of the dict
CoordCodecs == <<"fanlamp_pro_v1", "fanlamp_pro_v1/r0", "lelight">>

\* BleAdvBaseDevice.__init__; the one listener holds the codec's match_id and
\* the device's own Config
BleAdvBaseDevice(unique_id, codec_id, adapter_ids, cfg) ==
    [unique_id |-> unique_id, codec_id |-> codec_id, adapter_ids |-> adapter_ids,
     config |-> cfg, in_use_codec_ids |-> {codec_id},
     listeners |-> {CODECS(codec_id).match_id}]

DeviceIds == {"d1", "d2"}

Device(d) ==
    CASE d = "d1" -> BleAdvBaseDevice("d1", "fanlamp_pro_v1/r0", {"hci0", "hci1"},
                                      BleAdvConfig(12324, 0))
      [] d = "d2" -> BleAdvBaseDevice("d2", "fanlamp_pro_v1", {"hci0"},
                                      [BleAdvConfig(12324, 1) EXCEPT !.tx_count = 124,
                                                                     !.seed = 4660])
      [] d = "d3" -> BleAdvBaseDevice("d3", "lampsmart_pro_v1", {"hci1"},
                                      BleAdvConfig(12324, 1))

\* the command a device's entity sends
DeviceCmds(d) ==
    IF d = "d1" THEN {BleAdvEncCmd(18, 0, 0, 0, 0)} ELSE {BleAdvEncCmd(40, 0, 0, 0, 0)}

\* BleAdvBaseDevice.match, cfg being the device's Config
BleAdvBaseDevice_match(dev, cfg, match_id, adapter_id, config_) ==
    /\ adapter_id \in dev.adapter_ids
    /\ \E x \in dev.listeners : match_id = x /\ config_.id = cfg.id /\ config_.index = cfg.index

\* a variant of apply_cmd that encodes once for every adapter (a device has at most two)
apply_cmd_encode_per_adapter(dev, cfg, enc_cmd, rnd) ==
    LET c  == CODECS(dev.codec_id)
        sent(r) == [conf |-> r.conf, raised |-> r.raised,
                    data |-> [i \in 1..Len(r.advs) |-> to_raw(r.advs[i])],
                    adapter_ids |-> IF r.raised THEN {} ELSE dev.adapter_ids]
        again(r) == IF Cardinality(dev.adapter_ids) > 1
                    THEN CHOOSE out \in {sent(x) : x \in {encode_advs(c, enc_cmd, r.conf, rnd)}} :
                            TRUE
                    ELSE sent(r)
    IN  CHOOSE out \in {again(x) :
                          x \in {encode_advs(c, enc_cmd, [cfg EXCEPT !.seed = 0], rnd)}} : TRUE

\* BleAdvBaseDevice.apply_cmd: the Config after it, whether encode_advs
\* raised, the raw advertisements of the queue items and the adapters that
\* coordinator.advertise was called for
apply_cmd(dev, cfg, enc_cmd, rnd) ==
    LET sent(r) == [conf |-> r.conf, raised |-> r.raised,
                    data |-> [i \in 1..Len(r.advs) |-> to_raw(r.advs[i])],
                    adapter_ids |-> IF r.raised THEN {} ELSE dev.adapter_ids]
    IN  CHOOSE out \in {sent(x) : x \in {encode_advs(CODECS(dev.codec_id), enc_cmd,
                                                     [cfg EXCEPT !.seed = 0], rnd)}} : TRUE

\* BleAdvCoordinator._recompute_in_use_codecs.  The set is kept as a sequence
\* in the order of coordinator.codecs: handle_raw_adv iterates it, and with
\* these codecs no buffer is decoded by two codecs in use (their ble_type
\* differ), so that the order of iteration does not show.
recompute_in_use_codecs(devs) ==
    LET match_ids == {CODECS(codec_id).match_id :
                        codec_id \in UNION {Device(devs[i]).in_use_codec_ids : i \in DOMAIN devs}}
    IN  SelectSeq(CoordCodecs, LAMBDA x : CODECS(x).match_id \in match_ids)

\* BleAdvRecvItem(del_time, match_id, pub_devices, conf, ent_attrs).  In
\* place of ent_attrs the item keeps the command they are translated from;
\* codec_id and read record which codec decoded it and the Config as
\* decode_adv returned it.
BleAdvRecvItem(match_id, pub_devices, config_, enc_cmd, codec_id) ==
    [match_id |-> match_id, pub_devices |-> pub_devices, conf |-> config_,
     enc_cmd |-> enc_cmd, codec_id |-> codec_id, read |-> config_]

\* BleAdvCoordinator._publish_to_devices: the item after it
publish_to_devices(devs, cfgs, adapter_id, recv) ==
    [recv EXCEPT !.pub_devices =
        @ \cup {d \in Range(devs) :
                  BleAdvBaseDevice_match(Device(d), cfgs[d], recv.match_id, adapter_id, recv.conf)}]

\* handle_raw_adv, its loop over the in-use codecs from codec_ids on.  acc
\* holds the number of the last BleAdvRecvItem created (0 for None), the
\* items, _dec_last_advs, and whether an exception left the loop.  The only
\* multi-advertisement codec (FanLampEncoderV1b) has no seed, so its
\* encode_advs here never calls randint.
RECURSIVE decode_in_use(_, _, _, _, _, _)
decode_in_use(codec_ids, adv, adapter_id, devs, cfgs, acc) ==
    IF codec_ids = <<>> THEN acc
    ELSE LET codec_id == Head(codec_ids)
             acodec   == CODECS(codec_id)
             n        == Len(acc.items) + 1
             rest(acc2) == decode_in_use(Tail(codec_ids), adv, adapter_id, devs, cfgs, acc2)
             decoded_by(r) ==
                 LET recv == publish_to_devices(devs, cfgs, adapter_id,
                                BleAdvRecvItem(acodec.match_id, {}, r.conf, r.enc, codec_id))
                     reencoded(reenc) ==
                         LET kept == [recv EXCEPT !.conf = reenc.conf]
                         IN  IF reenc.raised
                             THEN [acc EXCEPT !.recv = n, !.items = Append(@, kept),
                                              !.raised = TRUE]
                             ELSE rest([recv |-> n, items |-> Append(acc.items, kept),
                                        dec_last |-> [x \in {reenc.advs[i].raw :
                                                               i \in DOMAIN reenc.advs} |-> n]
                                                     @@ acc.dec_last,
                                        raised |-> FALSE])
                 IN  IF r.st = "raise" THEN [acc EXCEPT !.raised = TRUE]
                     ELSE IF r.st = "none" THEN rest(acc)
                     ELSE IF ~acodec.multi_advs
                     THEN rest([recv |-> n, items |-> Append(acc.items, recv),
                                dec_last |-> (adv.raw :> n) @@ acc.dec_last, raised |-> FALSE])
                     ELSE CHOOSE out \in {reencoded(x) :
                                            x \in {encode_advs(acodec, r.enc, r.conf, 0)}} : TRUE
         IN  CHOOSE out \in {decoded_by(x) : x \in {decode_adv(acodec, adv)}} : TRUE

\* coordinator.decode_raw of raw_adv given as bytes, its loop from codec_ids on
RECURSIVE decode_raw_from(_, _)
decode_raw_from(codec_ids, adv) ==
    IF codec_ids = <<>> THEN [st |-> "none", codec_id |-> "", conf |-> NoConf]
    ELSE LET decoded_by(r) ==
                 IF r.st = "raise"
                 THEN [st |-> "raise", codec_id |-> Head(codec_ids), conf |-> NoConf]
                 ELSE IF r.st = "ok"
                 THEN [st |-> "ok", codec_id |-> Head(codec_ids), conf |-> r.conf]
                 ELSE decode_raw_from(Tail(codec_ids), adv)
         IN  CHOOSE out \in {decoded_by(x) : x \in {decode_adv(CODECS(Head(codec_ids)), adv)}} :
                TRUE

decode_raw(raw_adv) == decode_raw_from(CoordCodecs, FromRaw(raw_adv))

NoDecoded == [raw |-> <<>>, st |-> "", codec_id |-> "", conf |-> NoConf]

\* a remote control's advertisements: FanLampEncoderV1b, id 12324, cmd 0x13
RemoteRaw1 ==
    <<2, 1, 25, 27, 255, 240, 255, 182, 95, 43, 94, 0, 252, 49, 81, 16, 158, 148, 8, 36, 203,
      59, 252, 49, 163, 244, 85, 232, 207, 138, 13>>

RemoteRaw2 ==
    <<2, 1, 25, 27, 255, 240, 255, 182, 95, 43, 94, 0, 252, 49, 81, 16, 158, 148, 8, 36, 203,
      187, 252, 125, 135, 244, 85, 232, 79, 196, 60>>

\* too short to be considered
ShortRaw == <<2, 1, 25, 3, 255, 1, 2>>

\* manufacturer data of no codec in use
OtherRaw == <<2, 1, 26, 11, 255, 76, 0, 16, 5, 1, 24, 3, 7, 9, 1>>

ForeignRaws == {RemoteRaw1, RemoteRaw2, ShortRaw, OtherRaw}

InitCoord ==
    /\ devices = <<>>
    /\ config = [d \in DeviceIds |-> Device(d).config]
    /\ in_use = <<>>
    /\ emit_last = {}
    /\ raw_last = {}
    /\ dec_last = <<>>
    /\ items = <<>>
    /\ queue = [a \in Adapters |-> <<>>]
    /\ air = ForeignRaws
    /\ applies = [d \in DeviceIds |-> 0]
    /\ recvs = 0
    /\ decoded = NoDecoded
    /\ CodecIdle
    /\ TransIdle
    /\ RestIdle

\* coordinator.add_device(device)
AddDevice(d) ==
    /\ d \notin Range(devices)
    /\ devices' = Append(devices, d)
    /\ in_use' = recompute_in_use_codecs(devices')
    /\ raw_last' = {}
    /\ UNCHANGED <<config, emit_last, dec_last, items, queue, air, applies, recvs, decoded,
                   codecVars, transVars, restVars>>

\* coordinator.remove_device(device)
RemoveDevice(d) ==
    /\ d \in Range(devices)
    /\ devices' = SelectSeq(devices, LAMBDA x : x # d)
    /\ in_use' = recompute_in_use_codecs(devices')
    /\ dec_last' = <<>>
    /\ UNCHANGED <<config, emit_last, raw_last, items, queue, air, applies, recvs, decoded,
                   codecVars, transVars, restVars>>

\* device.apply_cmd(enc_cmd) of a registered device, with coordinator.advertise
\* for each of its adapters.  The first MaxHeard advertisements of the queue
\* item are then in the air.
ApplyCmd(d, enc_cmd, rnd) ==
    /\ d \in Range(devices)
    /\ applies["d1"] + applies["d2"] < MaxApplies
    /\ \E r \in {apply_cmd(Device(d), config[d], enc_cmd, rnd)} :
           /\ config' = [config EXCEPT ![d] = r.conf]
           /\ emit_last' = IF r.adapter_ids = {} THEN emit_last ELSE emit_last \cup Range(r.data)
           /\ queue' = [a \in Adapters |->
                          IF a \in r.adapter_ids
                          THEN Append(queue[a], [queue_id |-> d, cmd |-> enc_cmd.cmd,
                                                 data |-> Len(r.data)])
                          ELSE queue[a]]
           /\ air' = IF r.adapter_ids = {} THEN air
                     ELSE air \cup Range(PySlice(r.data, 0, MaxHeard))
    /\ applies' = [applies EXCEPT ![d] = @ + 1]
    /\ UNCHANGED <<devices, in_use, raw_last, dec_last, items, recvs, decoded,
                   codecVars, transVars, restVars>>

\* coordinator.handle_raw_adv(adapter_id, orig, raw_adv); expired tells
\* whether the expiry time of the cached entries has passed
HandleRawAdv(adapter_id, raw_adv, expired) ==
    /\ recvs < MaxRecvs
    /\ recvs' = recvs + 1
    /\ IF Len(raw_adv) < 8
       THEN UNCHANGED <<raw_last, emit_last, dec_last, items>>
       ELSE \E adv \in {FromRaw(raw_adv)} :
            LET raws  == IF expired THEN {} ELSE raw_last
                emits == IF expired THEN {} ELSE emit_last
                decs  == IF expired THEN <<>> ELSE dec_last
            IN  /\ emit_last' = emits
                /\ IF raw_adv \in emits \/ raw_adv \in raws
                   THEN /\ raw_last' = raws
                        /\ dec_last' = decs
                        /\ items' = items
                   ELSE IF adv.raw \in DOMAIN decs
                   THEN /\ raw_last' = raws
                        /\ dec_last' = decs
                        /\ items' = [items EXCEPT ![decs[adv.raw]] =
                                        publish_to_devices(devices, config, adapter_id, @)]
                   ELSE \E acc \in {decode_in_use(in_use, adv, adapter_id, devices, config,
                                                   [recv |-> 0, items |-> items,
                                                    dec_last |-> decs, raised |-> FALSE])} :
                        /\ raw_last' = IF acc.recv = 0 /\ ~acc.raised THEN raws \cup {raw_adv}
                                       ELSE raws
                        /\ dec_last' = acc.dec_last
                        /\ items' = acc.items
    /\ UNCHANGED <<devices, config, in_use, queue, air, applies, decoded, codecVars, transVars, restVars>>

\* coordinator.decode_raw of the hex string of raw_adv
DecodeRaw(raw_adv) ==
    /\ recvs < MaxRecvs
    /\ recvs' = recvs + 1
    /\ decoded' = [raw |-> raw_adv] @@ decode_raw(raw_adv)
    /\ UNCHANGED <<devices, config, in_use, emit_last, raw_last, dec_last, items, queue, air,
                   applies, codecVars, transVars, restVars>>

NextCoord ==
    \/ \E d \in DeviceIds : AddDevice(d)
    \/ \E d \in DeviceIds : RemoveDevice(d)
    \/ \E d \in DeviceIds : \E enc_cmd \in DeviceCmds(d) :
          \E rnd \in SeedDraws(CODECS(Device(d).codec_id), 0) : ApplyCmd(d, enc_cmd, rnd)
    \/ \E adapter_id \in Adapters, raw_adv \in air, expired \in BOOLEAN :
          HandleRawAdv(adapter_id, raw_adv, expired)
    \/ \E raw_adv \in air : DecodeRaw(raw_adv)

SpecCoord == InitCoord /\ [][NextCoord]_vars

(***************************************************************************)
(* ble_adv/codecs/zhijia.py: the translator tables, entry by entry in the  *)
(* order of the lists.  True is 1 and False is 0.                          *)
(***************************************************************************)
PyFalse == Num(0, 1)

\* LightCmd(1)
LightCmd1(actions, eqs) == EntityMatcher("light", 1, actions, eqs, <<>>, <<>>)

\* RGBLightCmd(1)
RGBLightCmd1(actions, eqs) ==
    EntityMatcher("light", 1, actions, <<<<"sub_type", Str("rgb")>>>> \o eqs, <<>>, <<>>)

\* ColdLightCmd() and WarmLightCmd(): both are a light of index 0 with
\* sub_type LIGHT_TYPE_CWW_SPLIT; they differ only in get_supported_features
ColdLightCmd(actions, eqs) ==
    EntityMatcher("light", 0, actions, <<<<"sub_type", Str("cww_split")>>>> \o eqs, <<>>, <<>>)

WarmLightCmd(actions, eqs) ==
    EntityMatcher("light", 0, actions, <<<<"sub_type", Str("cww_split")>>>> \o eqs, <<>>, <<>>)

FanCmd(actions, eqs) == EntityMatcher("fan", 0, actions, eqs, <<>>, <<>>)

Fan3SpeedCmd(actions, eqs) ==
    EntityMatcher("fan", 0, actions, <<<<"speed_count", Num(3, 1)>>>> \o eqs, <<>>, <<>>)

\* the outcome of a table entry whose construction raises AttributeError
AttributeError ==
    no_reverse(no_direct(Trans(EntityMatcher("AttributeError", 0, <<>>, <<>>, <<>>, <<>>),
                               EncoderMatcher(-1, <<>>), <<>>, NoScopy)))

\* t.eq(attr, attr_val) on a Trans: the class defines no eq (CommonMatcher
\* does), so the attribute lookup raises
Trans_eq(t, attr, attr_val) == AttributeError

\* t.copy(attr_ent, attr_enc, factor) on a Trans
Trans_copy(t, attr_ent, attr_enc, factor) ==
    IF t = AttributeError THEN AttributeError
    ELSE [t EXCEPT !.copies = @ \o <<copy(attr_ent, attr_enc, factor)>>]

\* Trans(ent, enc) with no copy
Trans0(ent_, enc_) == Trans(ent_, enc_, <<>>, NoScopy)

\* EncCmd(cmd)
EncCmd(cmd) == EncoderMatcher(cmd, <<>>)

\* EncCmd(cmd).eq(attr, val)
EncCmdEq(cmd, attr, val) == EncoderMatcher(cmd, <<<<attr, val>>>>)

\* EncCmd(cmd).eq("arg0", v0).eq("arg1", v1)
EncCmdEq2(cmd, v0, v1) == EncoderMatcher(cmd, <<<<"arg0", v0>>, <<"arg1", v1>>>>)

\* CTLightCmd().eq(ATTR_COLD, cold).eq(ATTR_WARM, warm)
CTShortcut(cold, warm) == CTLightCmd(<<>>, <<<<"cold", cold>>, <<"warm", warm>>>>, <<>>, <<>>)

\* Fan6SpeedCmd().act(ATTR_ON, True).act(ATTR_SPEED).min(ATTR_SPEED, lo).max(ATTR_SPEED, hi)
Fan6Range(lo, hi) ==
    Fan6SpeedCmd(<<"on", "speed">>, <<<<"on", PyTrue>>>>,
                 <<<<"speed", Num(lo, 1)>>>>, <<<<"speed", Num(hi, 1)>>>>)

\* DeviceCmd().act(ATTR_CMD, cmd)
DeviceAct(cmd) == DeviceCmd(<<"cmd">>, <<<<"cmd", Str(cmd)>>>>, <<>>, <<>>)

\* DeviceCmd().act(ATTR_CMD, ATTR_CMD_TIMER).eq(ATTR_TIME, s)
DeviceTimer(s) == DeviceCmd(<<"cmd">>, <<<<"cmd", Str("timer")>>, <<"s", Num(s, 1)>>>>, <<>>, <<>>)

TRANS_V0 ==
    << Trans0(DeviceAct("pair"), EncCmd(180)),
       Trans0(DeviceAct("unpair"), EncCmd(176)),
       Trans0(DeviceTimer(60), EncCmd(212)),
       Trans0(DeviceTimer(120), EncCmd(213)),
       Trans0(DeviceTimer(240), EncCmd(214)),
       Trans0(DeviceTimer(480), EncCmd(215)),
       Trans0(LightCmd(<<"on">>, <<<<"on", PyTrue>>>>, <<>>, <<>>), EncCmd(179)),
       Trans0(LightCmd(<<"on">>, <<<<"on", PyFalse>>>>, <<>>, <<>>), EncCmd(178)),
       Trans(CTLightCmd(<<"br">>, <<>>, <<>>, <<>>), EncCmd(181), <<>>,
             split_copy("br", <<"arg2", "arg1">>, Num(1000, 1), 256)),
       Trans(CTLightCmd(<<"ct">>, <<>>, <<>>, <<>>), EncCmd(183), <<>>,
             split_copy("ct", <<"arg2", "arg1">>, Num(1000, 1), 256)),
       Trans0(LightCmd1(<<"on">>, <<<<"on", PyTrue>>>>), EncCmdEq(166, "arg0", 1)),
       Trans0(LightCmd1(<<"on">>, <<<<"on", PyFalse>>>>), EncCmdEq(166, "arg0", 2)),
       Trans0(FanCmd(<<"dir">>, <<<<"dir", PyTrue>>>>), EncCmd(217)),
       Trans0(FanCmd(<<"dir">>, <<<<"dir", PyFalse>>>>), EncCmd(218)),
       Trans0(FanCmd(<<"on">>, <<<<"on", PyFalse>>>>), EncCmd(216)),
       Trans0(Fan3SpeedCmd(<<"on">>, <<<<"on", PyTrue>>, <<"speed", Num(1, 1)>>>>), EncCmd(210)),
       Trans0(Fan3SpeedCmd(<<"on">>, <<<<"on", PyTrue>>, <<"speed", Num(2, 1)>>>>), EncCmd(209)),
       Trans0(Fan3SpeedCmd(<<"on">>, <<<<"on", PyTrue>>, <<"speed", Num(3, 1)>>>>), EncCmd(208)),
       no_reverse(Trans0(Fan6Range(1, 2), EncCmd(210))),
       no_reverse(Trans0(Fan6Range(3, 4), EncCmd(209))),
       no_reverse(Trans0(Fan6Range(5, 6), EncCmd(208))),
       no_direct(Trans0(CTShortcut(Num(1, 10), Num(1, 10)), EncCmdEq2(161, 25, 25))),
       no_direct(Trans0(CTShortcut(Num(1, 1), Num(0, 1)), EncCmdEq2(162, 255, 0))),
       no_direct(Trans0(CTShortcut(Num(0, 1), Num(1, 1)), EncCmdEq2(163, 0, 255))),
       no_direct(Trans0(CTShortcut(Num(1, 1), Num(1, 1)), EncCmdEq2(164, 255, 255))),
       no_direct(Trans0(CTShortcut(Num(1, 1), Num(0, 1)), EncCmdEq(167, "arg0", 1))),
       no_direct(Trans0(CTShortcut(Num(0, 1), Num(1, 1)), EncCmdEq(167, "arg0", 2))),
       no_direct(Trans0(CTShortcut(Num(1, 1), Num(1, 1)), EncCmdEq(167, "arg0", 3))) >>

TRANS_COMMON_V1_V2 ==
    << Trans0(DeviceAct("pair"), EncCmd(162)),
       Trans0(DeviceAct("unpair"), EncCmd(163)),
       Trans(DeviceAct("timer"), EncCmd(217), <<copy("s", "arg0", Num(1, 60))>>, NoScopy),
       Trans0(LightCmd(<<"on">>, <<<<"on", PyTrue>>>>, <<>>, <<>>), EncCmd(165)),
       Trans0(LightCmd(<<"on">>, <<<<"on", PyFalse>>>>, <<>>, <<>>), EncCmd(166)),
       Trans0(LightCmd1(<<"on">>, <<<<"on", PyTrue>>>>), EncCmd(175)),
       Trans0(LightCmd1(<<"on">>, <<<<"on", PyFalse>>>>), EncCmd(176)),
       Trans0(FanCmd(<<"dir">>, <<<<"dir", PyTrue>>>>), EncCmd(219)),
       Trans0(FanCmd(<<"dir">>, <<<<"dir", PyFalse>>>>), EncCmd(218)),
       Trans0(FanCmd(<<"on">>, <<<<"on", PyFalse>>>>), EncCmd(215)),
       Trans0(Fan3SpeedCmd(<<"on">>, <<<<"on", PyTrue>>, <<"speed", Num(1, 1)>>>>), EncCmd(214)),
       Trans0(Fan3SpeedCmd(<<"on">>, <<<<"on", PyTrue>>, <<"speed", Num(2, 1)>>>>), EncCmd(213)),
       Trans0(Fan3SpeedCmd(<<"on">>, <<<<"on", PyTrue>>, <<"speed", Num(3, 1)>>>>), EncCmd(212)),
       no_reverse(Trans0(Fan6Range(1, 2), EncCmd(214))),
       no_reverse(Trans0(Fan6Range(3, 4), EncCmd(213))),
       no_reverse(Trans0(Fan6Range(5, 6), EncCmd(212))),
       no_direct(Trans0(CTShortcut(Num(1, 10), Num(1, 10)), EncCmdEq2(167, 25, 25))),
       no_direct(Trans0(CTShortcut(Num(1, 1), Num(0, 1)), EncCmdEq2(168, 250, 0))),
       no_direct(Trans0(CTShortcut(Num(0, 1), Num(1, 1)), EncCmdEq2(168, 0, 250))),
       no_direct(Trans0(CTShortcut(Num(1, 1), Num(1, 1)), EncCmdEq2(168, 250, 250))) >>

\* Trans(CTLightCmd().act(attr), EncCmd(cmd)).copy(attr, "arg0", 250)
CTCopy250(attr, cmd) ==
    Trans(CTLightCmd(<<attr>>, <<>>, <<>>, <<>>), EncCmd(cmd),
          <<copy(attr, "arg0", Num(250, 1))>>, NoScopy)

TRANS_V1 == TRANS_COMMON_V1_V2 \o << CTCopy250("br", 173), CTCopy250("ct", 174) >>

TRANS_V2_COMMON ==
    << Trans(RGBLightCmd1(<<"br">>, <<>>), EncCmd(200), <<copy("br", "arg0", Num(250, 1))>>, NoScopy),
       Trans(RGBLightCmd1(<<"r", "g", "b">>, <<>>), EncCmd(202),
             <<copy("r", "arg0", Num(250, 1)), copy("g", "arg1", Num(250, 1)),
               copy("b", "arg2", Num(250, 1))>>, NoScopy),
       Trans0(RGBLightCmd1(<<"effect">>, <<<<"effect", Str("rgb")>>>>), EncCmd(188)),
       Trans0(RGBLightCmd1(<<"effect">>, <<<<"effect", Str("rgbk")>>>>), EncCmd(190)) >>

TRANS_V2 ==
    TRANS_COMMON_V1_V2 \o TRANS_V2_COMMON \o << CTCopy250("br", 173), CTCopy250("ct", 174) >>

TRANS_V2_FL ==
    TRANS_COMMON_V1_V2 \o TRANS_V2_COMMON \o
    << Trans(CTLightCmd(<<"cold", "warm">>, <<>>, <<>>, <<>>), EncCmd(168),
             <<copy("cold", "arg0", Num(250, 1)), copy("warm", "arg1", Num(250, 1))>>, NoScopy),
       no_direct(CTCopy250("br", 173)),
       no_direct(CTCopy250("ct", 174)) >>

\* the two brightness entries end in .eq(...) called on the Trans
TRANS_V2_SPLIT ==
    TRANS_COMMON_V1_V2 \o TRANS_V2_COMMON \o
    << Trans0(ColdLightCmd(<<"on">>, <<<<"on", PyTrue>>>>), EncCmd(165)),
       Trans0(ColdLightCmd(<<"on">>, <<<<"on", PyFalse>>>>), EncCmd(166)),
       Trans_eq(Trans_copy(Trans0(ColdLightCmd(<<"br">>, <<>>), EncCmd(168)),
                           "br", "arg0", Num(250, 1)), "arg1", 0),
       Trans0(WarmLightCmd(<<"on">>, <<<<"on", PyTrue>>>>), EncCmd(165)),
       Trans0(WarmLightCmd(<<"on">>, <<<<"on", PyFalse>>>>), EncCmd(166)),
       Trans_copy(Trans_eq(Trans0(WarmLightCmd(<<"br">>, <<>>), EncCmd(168)), "arg0", 0),
                  "br", "arg1", Num(250, 1)) >>

(***************************************************************************)
(* codecs/models.py: the translators of a codec.  Each table is taken as   *)
(* its list expression evaluates; a codec whose table could not be built   *)
(* has no translators to call, and calling it raises.                      *)
(***************************************************************************)
\* add_translators(...) of the Zhi Jia codecs
translators(codec_id) ==
    CASE codec_id = "zhijia_v0" -> TRANS_V0
      [] codec_id = "zhijia_v1" -> TRANS_V1
      [] codec_id = "zhijia_v2" -> TRANS_V2
      [] codec_id = "zhijia_v2_fl" -> TRANS_V2_FL
      [] codec_id = "zhijia_v2_split" -> TRANS_V2_SPLIT

TableBuilt(table) == \A i \in 1..Len(table) : table[i] # AttributeError

\* BleAdvCodec.enc_to_ent
BleAdvCodec_enc_to_ent(table, enc_cmd) ==
    LET hit(t) == Trans_matches_enc(t, enc_cmd)
        sel == SelectSeq(table, hit)
    IN  IF ~TableBuilt(table) THEN [st |-> "raise", ents |-> <<>>]
        ELSE [st |-> "ok", ents |-> [i \in 1..Len(sel) |-> Trans_enc_to_ent(sel[i], enc_cmd)]]

\* BleAdvCodec.ent_to_enc: a matcher that raises, or a translation that
\* raises, ends the call
BleAdvCodec_ent_to_enc(table, ent_attr) ==
    LET hit(t) == Trans_matches_ent(t, ent_attr) = "True"
        sel == SelectSeq(table, hit)
        out == [i \in 1..Len(sel) |-> Trans_ent_to_enc(sel[i], ent_attr)]
    IN  IF \/ ~TableBuilt(table)
           \/ \E i \in 1..Len(table) : Trans_matches_ent(table[i], ent_attr) = "raise"
           \/ \E i \in 1..Len(out) : out[i].st = "raise"
        THEN [st |-> "raise", cmds |-> <<>>]
        ELSE [st |-> "ok", cmds |-> [i \in 1..Len(out) |-> out[i].cmd]]

(***************************************************************************)
(* The receiving specification: a codec receives an advertisement that a   *)
(* sender of the same codec encoded, decodes it, translates the command to *)
(* entity attributes and back, and encodes the result again with the       *)
(* decoded Config (tests/codecs/__init__.py, test_decode_reencode, with    *)
(* the codec as registered).                                               *)
(***************************************************************************)
RegCodecs == {"zhijia_v0", "zhijia_v1", "zhijia_v2", "zhijia_v2_fl", "zhijia_v2_split"}

\* the sender's Config
RegConf == [id |-> 12324, index |-> 1, tx_count |-> 7, app_restart_count |-> 1, seed |-> 0]

\* commands a sender sends: the command each table entry creates, and
\* commands with other argument bytes
RegCmds(codec_id) ==
    LET table == translators(codec_id)
    IN  {EncoderMatcher_create(table[i].enc) : i \in {j \in 1..Len(table) : table[j] # AttributeError}}
        \cup { BleAdvEncCmd(168, 0, 0, 0, 0), BleAdvEncCmd(168, 0, 125, 0, 0),
               BleAdvEncCmd(168, 0, 0, 125, 0), BleAdvEncCmd(168, 0, 250, 125, 0),
               BleAdvEncCmd(165, 0, 7, 0, 0), BleAdvEncCmd(173, 0, 33, 0, 0),
               BleAdvEncCmd(181, 0, 0, 1, 244), BleAdvEncCmd(166, 0, 3, 0, 0),
               BleAdvEncCmd(217, 0, 2, 0, 0), BleAdvEncCmd(1, 0, 0, 0, 0) }

RegAdvs(codec_id) ==
    LET sent == {encode_advs(CODECS(codec_id), enc_cmd, RegConf, 0) : enc_cmd \in RegCmds(codec_id)}
    IN  {r.advs[1] : r \in {x \in sent : ~x.raised /\ Len(x.advs) > 0}}

InitReg ==
    /\ rcodec \in RegCodecs
    /\ radv \in RegAdvs(rcodec)
    /\ rdec = NoDec
    /\ rmatch = <<>>
    /\ rents = NoEnts
    /\ rencs = NoCmds
    /\ readv = NoReAdv
    /\ IdleBesideReg

\* enc_cmd, conf = codec.decode_adv(adv)
RegDecode ==
    /\ rdec.st = ""
    /\ rdec' = decode_adv(CODECS(rcodec), radv)
    /\ UNCHANGED <<rcodec, radv, rmatch, rents, rencs, readv, besideReg>>

\* trans.enc.matches(enc_cmd) of every translator of the codec
RegMatch ==
    /\ rdec.st = "ok"
    /\ rmatch = <<>>
    /\ rmatch' = [i \in 1..Len(translators(rcodec)) |->
                     EncoderMatcher_matches(translators(rcodec)[i].enc, rdec.enc)]
    /\ UNCHANGED <<rcodec, radv, rdec, rents, rencs, readv, besideReg>>

\* ent_attrs = codec.enc_to_ent(enc_cmd)
RegEncToEnt ==
    /\ rdec.st = "ok"
    /\ rents.st = ""
    /\ rents' = BleAdvCodec_enc_to_ent(translators(rcodec), rdec.enc)
    /\ UNCHANGED <<rcodec, radv, rdec, rmatch, rencs, readv, besideReg>>

\* enc_cmds = codec.ent_to_enc(ent_attrs[0])
RegEntToEnc ==
    /\ rents.st = "ok"
    /\ Len(rents.ents) > 0
    /\ rencs.st = ""
    /\ rencs' = BleAdvCodec_ent_to_enc(translators(rcodec), rents.ents[1])
    /\ UNCHANGED <<rcodec, radv, rdec, rmatch, rents, readv, besideReg>>

\* codec.encode_advs(enc_cmds[0], conf) with the decoded Config
RegReEncode ==
    /\ rencs.st = "ok"
    /\ Len(rencs.cmds) > 0
    /\ readv.st = ""
    /\ LET r == encode_advs(CODECS(rcodec), rencs.cmds[1], rdec.conf, 0)
       IN  readv' = [st |-> IF r.raised THEN "raise" ELSE "ok", advs |-> r.advs, conf |-> r.conf]
    /\ UNCHANGED <<rcodec, radv, rdec, rmatch, rents, rencs, besideReg>>

NextReg == RegDecode \/ RegMatch \/ RegEncToEnt \/ RegEntToEnc \/ RegReEncode

SpecReg == InitReg /\ [][NextReg]_vars

(***************************************************************************)
(* The registration specification: translators are objects; codecs hold    *)
(* references to them in _translators.  pool is the heap of Trans objects, *)
(* an object is its index in pool.  Translators are built, have            *)
(* no_direct() / no_reverse() called on them, are registered in codecs     *)
(* with add_translators and add_rev_only_trans, and the codecs translate   *)
(* (tests/codecs/test_models.py, test_codec).                              *)
(***************************************************************************)
\* number of Trans objects built before registration
GateObjs == 2

\* most Trans objects in the heap, and most references a codec holds
MaxObjs == 4

MaxHeld == 2

GateCodecs == {"c1", "c2"}

\* every translator is Trans(LightCmd().act(ATTR_ON, True), EncCmd(0x24)), so
\* that only the flags decide whether it takes part
GateTrans == Trans0(LightCmd(<<"on">>, <<<<"on", PyTrue>>>>, <<>>, <<>>), EncCmd(36))

GateEnt == BleAdvEntAttr({"on"}, "on" :> PyTrue, "light", 0)

GateCmd == BleAdvEncCmd(36, 0, 0, 0, 0)

\* copy.copy(trans): a new object with the attributes of trans
copy_copy(heap, i) == Append(heap, heap[i])

\* a variant of add_rev_only_trans that flags the translators it is given
\* instead of copies of them
add_rev_only_trans_in_place(heap, refs, given) ==
    LET sel == SelectSeq(given, LAMBDA i : heap[i].reverse)
    IN  [heap |-> [i \in 1..Len(heap) |->
                      IF i \in Range(sel) THEN no_direct(heap[i]) ELSE heap[i]],
         refs |-> refs \o sel]

\* BleAdvCodec.add_rev_only_trans: _translators of the codec is refs, the
\* translators given are the objects given
add_rev_only_trans(heap, refs, given) ==
    LET sel == SelectSeq(given, LAMBDA i : heap[i].reverse)
    IN  [heap |-> heap \o [k \in 1..Len(sel) |-> no_direct(heap[sel[k]])],
         refs |-> refs \o [k \in 1..Len(sel) |-> Len(heap) + k]]

\* BleAdvCodec.add_translators
add_translators(refs, given) == refs \o given

\* lists of translators handed to a codec: objects built before registration
GivenLists ==
    {<<i>> : i \in 1..GateObjs} \cup {<<i, j>> : i \in 1..GateObjs, j \in 2..GateObjs}

InitGate ==
    /\ pool = [i \in 1..GateObjs |-> GateTrans]
    /\ held = [c \in GateCodecs |-> <<>>]
    /\ called = [nd |-> {}, nr |-> {}]
    /\ glast = NoGate
    /\ IdleBesideGate

\* pool[i].no_direct()
NoDirect(i) ==
    /\ pool[i].direct
    /\ pool' = [pool EXCEPT ![i] = no_direct(@)]
    /\ called' = [called EXCEPT !.nd = @ \cup {i}]
    /\ glast' = [NoGate EXCEPT !.op = "no_direct"]
    /\ UNCHANGED <<held, besideGate>>

\* pool[i].no_reverse()
NoReverse(i) ==
    /\ pool[i].reverse
    /\ pool' = [pool EXCEPT ![i] = no_reverse(@)]
    /\ called' = [called EXCEPT !.nr = @ \cup {i}]
    /\ glast' = [NoGate EXCEPT !.op = "no_reverse"]
    /\ UNCHANGED <<held, besideGate>>

\* codec.add_translators(given)
AddTranslators(c, given) ==
    /\ Len(held[c]) + Len(given) <= MaxHeld
    /\ held' = [held EXCEPT ![c] = add_translators(@, given)]
    /\ glast' = [NoGate EXCEPT !.op = "add_translators", !.codec_id = c, !.given = given]
    /\ UNCHANGED <<pool, called, besideGate>>

\* codec.add_rev_only_trans(given); no_direct() is called on each copy
AddRevOnlyTrans(c, given) ==
    /\ Len(held[c]) + Len(given) <= MaxHeld
    /\ Len(pool) + Len(given) <= MaxObjs
    /\ LET r == add_rev_only_trans(pool, held[c], given)
       IN  /\ pool' = r.heap
           /\ held' = [held EXCEPT ![c] = r.refs]
           /\ called' = [called EXCEPT !.nd = @ \cup {i \in 1..Len(r.heap) :
                                                        i > Len(pool) \/ (pool[i].direct /\ ~r.heap[i].direct)}]
    /\ glast' = [NoGate EXCEPT !.op = "add_rev_only_trans", !.codec_id = c, !.given = given,
                               !.pre = pool]
    /\ UNCHANGED besideGate

\* codec.ent_to_enc(ent_attr): the translators that take part are those
\* whose matches_ent is True
CodecEntToEnc(c) ==
    /\ held[c] # <<>>
    /\ glast' = [NoGate EXCEPT !.op = "ent_to_enc", !.codec_id = c,
                    !.took = {held[c][k] : k \in {j \in 1..Len(held[c]) :
                                 Trans_matches_ent(pool[held[c][j]], GateEnt) = "True"}}]
    /\ UNCHANGED <<pool, held, called, besideGate>>

\* codec.enc_to_ent(enc_cmd)
CodecEncToEnt(c) ==
    /\ held[c] # <<>>
    /\ glast' = [NoGate EXCEPT !.op = "enc_to_ent", !.codec_id = c,
                    !.took = {held[c][k] : k \in {j \in 1..Len(held[c]) :
                                 Trans_matches_enc(pool[held[c][j]], GateCmd)}}]
    /\ UNCHANGED <<pool, held, called, besideGate>>

NextGate ==
    \/ \E i \in 1..Len(pool) : NoDirect(i)
    \/ \E i \in 1..Len(pool) : NoReverse(i)
    \/ \E c \in GateCodecs, given \in GivenLists : AddTranslators(c, given)
    \/ \E c \in GateCodecs, given \in GivenLists : AddRevOnlyTrans(c, given)
    \/ \E c \in GateCodecs : CodecEntToEnc(c)
    \/ \E c \in GateCodecs : CodecEncToEnt(c)

SpecGate == InitGate /\ [][NextGate]_vars

(***************************************************************************)
(* The sharing specification: the devices of one codec id call encode_advs *)
(* and decode_adv on the one instance get_codecs() holds for it, each with *)
(* its own BleAdvConfig, in any order.  Next to each call the same call is *)
(* made on an instance of the device's own, with the same draw of randint. *)
(***************************************************************************)
MaxShareCalls == 3

ShareDevs == {"d1", "d2"}

\* the Configs the two devices start from
ShareConfs ==
    { [d \in ShareDevs |-> IF d = "d1" THEN c1 ELSE c2] :
        c1 \in {c \in Configs : c.id = 12324}, c2 \in {c \in Configs : c.id # 12324} }

\* a variant of encode_advs_self in which the codec counts its calls in its
\* own _tx_step
encode_advs_self_counting(c, enc_cmd, cf) == [c EXCEPT !.tx_step = c.tx_step + 1]

\* the attributes of the codec after encode_advs(enc_cmd, cf): no statement
\* of encode_advs, nor of the methods it calls, assigns to an attribute of self
encode_advs_self(c, enc_cmd, cf) == c

\* the attributes of the codec after decode_adv(adv)
decode_adv_self(c, adv) == c

InitShare ==
    /\ scodec \in CodecIds
    /\ inst = CODECS(scodec)
    /\ sconf \in ShareConfs
    /\ solo = sconf
    /\ slast = NoShare
    /\ scalls = 0
    /\ IdleBesideShare

\* device d calls codec.encode_advs(enc_cmd, config) on the shared instance
ShareEncode(d, enc_cmd, rnd) ==
    /\ scalls < MaxShareCalls
    /\ \E r \in {encode_advs(inst, enc_cmd, sconf[d], rnd)},
          a \in {encode_advs(CODECS(scodec), enc_cmd, solo[d], rnd)} :
           /\ sconf' = [sconf EXCEPT ![d] = r.conf]
           /\ solo' = [solo EXCEPT ![d] = a.conf]
           /\ slast' = [dev |-> d, op |-> "encode_advs",
                        got |-> ShareOut(r.raised, r.advs, DecNone),
                        alone |-> ShareOut(a.raised, a.advs, DecNone)]
    /\ inst' = encode_advs_self(inst, enc_cmd, sconf[d])
    /\ scalls' = scalls + 1
    /\ UNCHANGED <<scodec, besideShare>>

\* device d calls codec.decode_adv(adv) on the shared instance
ShareDecode(d, adv) ==
    /\ scalls < MaxShareCalls
    /\ slast' = [dev |-> d, op |-> "decode_adv",
                 got |-> ShareOut(FALSE, <<>>, decode_adv(inst, adv)),
                 alone |-> ShareOut(FALSE, <<>>, decode_adv(CODECS(scodec), adv))]
    /\ inst' = decode_adv_self(inst, adv)
    /\ scalls' = scalls + 1
    /\ UNCHANGED <<scodec, sconf, solo, besideShare>>

NextShare ==
    \/ \E d \in ShareDevs, enc_cmd \in EncCmds(scodec) :
           \E rnd \in SeedDraws(inst, sconf[d].seed) : ShareEncode(d, enc_cmd, rnd)
    \/ \E d \in ShareDevs :
           \E adv \in Range(slast.got.advs) \cup ForeignAdvs : ShareDecode(d, adv)

SpecShare == InitShare /\ [][NextShare]_vars

(***************************************************************************)
(* codecs/__init__.py: the codec registry.  A codec is here its codec_id   *)
(* and match_id as id() / fid() set them, and pos, its place in the list,  *)
(* which tells two instances apart.                                        *)
(***************************************************************************)
\* sub_id left out of id(match_id, sub_id), or given as None
PyNone == "<None>"

BleAdvCodec_fid(codec_id, match_id) == [codec_id |-> codec_id, match_id |-> match_id]

\* a variant of BleAdvCodec.id that leaves the sub_id out of the codec_id
BleAdvCodec_id_no_sub(match_id, sub_id) == BleAdvCodec_fid(match_id, match_id)

BleAdvCodec_id(match_id, sub_id) ==
    BleAdvCodec_fid(IF sub_id # PyNone THEN match_id \o "/" \o sub_id ELSE match_id, match_id)

FLV1 == "fanlamp_pro_v1"

FLV2 == "fanlamp_pro_v2"

FLV3 == "fanlamp_pro_v3"

LSV1 == "lampsmart_pro_v1"

LSV2 == "lampsmart_pro_v2"

LSV3 == "lampsmart_pro_v3"

FLCODECS ==
    << BleAdvCodec_id(FLV1, PyNone),
       BleAdvCodec_id(FLV2, PyNone),
       BleAdvCodec_id(FLV3, PyNone),
       BleAdvCodec_id(FLV3, "s1"),
       BleAdvCodec_id(FLV3, "s2"),
       BleAdvCodec_id(FLV3, "s3"),
       BleAdvCodec_fid("fanlamp_pro_vi3", FLV3),
       BleAdvCodec_fid("fanlamp_pro_vi3/s1", FLV3),
       BleAdvCodec_fid("fanlamp_pro_vi3/s2", FLV3),
       BleAdvCodec_fid("fanlamp_pro_vi3/s3", FLV3),
       BleAdvCodec_fid("remote_v1", FLV1),
       BleAdvCodec_id(FLV1, "r0"),
       BleAdvCodec_fid("remote_v2", FLV2),
       BleAdvCodec_fid("remote_v3", FLV3) >>

LSCODECS ==
    << BleAdvCodec_id(LSV1, PyNone),
       BleAdvCodec_id(LSV2, PyNone),
       BleAdvCodec_id(LSV3, PyNone),
       BleAdvCodec_id(LSV3, "s1"),
       BleAdvCodec_id(LSV3, "s2"),
       BleAdvCodec_id(LSV3, "s3"),
       BleAdvCodec_id("lampsmart_pro_vi1", PyNone),
       BleAdvCodec_id("lampsmart_pro_vi3", PyNone),
       BleAdvCodec_fid("lampsmart_pro_vi3/s1", LSV3),
       BleAdvCodec_fid("lampsmart_pro_vi3/s2", LSV3),
       BleAdvCodec_fid("lampsmart_pro_vi3/s3", LSV3),
       BleAdvCodec_id(LSV3, "s0_1"),
       BleAdvCodec_id(LSV3, "s1_1"),
       BleAdvCodec_id(LSV3, "s2_1"),
       BleAdvCodec_id(LSV3, "s3_1"),
       BleAdvCodec_id(LSV1, "r1"),
       BleAdvCodec_id(LSV2, "r1"),
       BleAdvCodec_id(LSV3, "r1"),
       BleAdvCodec_fid("other_v1b", LSV1),
       BleAdvCodec_fid("other_v1a", LSV1),
       BleAdvCodec_fid("other_v2", LSV2),
       BleAdvCodec_fid("other_v3", LSV3),
       BleAdvCodec_fid("remote_v21", LSV2),
       BleAdvCodec_fid("remote_v31", LSV3) >>

ZHIJIA_CODECS ==
    << BleAdvCodec_id("zhijia_v0", PyNone),
       BleAdvCodec_id("zhijia_v1", PyNone),
       BleAdvCodec_id("zhijia_v2", PyNone),
       BleAdvCodec_id("zhijia_v2_fl", PyNone),
       BleAdvCodec_id("zhijia_v2_split", PyNone),
       BleAdvCodec_id("zhiguang_v0", PyNone),
       BleAdvCodec_id("zhiguang_v1", PyNone),
       BleAdvCodec_id("zhiguang_v2", PyNone),
       BleAdvCodec_fid("zhijia_vr1", "zhijia_v1") >>

ZHIMEI_CODECS ==
    << BleAdvCodec_id("zhimei_fan_v0", PyNone),
       BleAdvCodec_id("zhimei_fan_v1", PyNone),
       BleAdvCodec_id("zhimei_v1", PyNone),
       BleAdvCodec_id("zhimei_v2", PyNone),
       BleAdvCodec_fid("zhimei_fan_vr0", "zhimei_fan_v0"),
       BleAdvCodec_fid("zhimei_fan_vr1", "zhimei_fan_v1"),
       BleAdvCodec_fid("zhimei_fan_v1b", "zhimei_fan_v1"),
       BleAdvCodec_fid("zhimei_v1b", "zhimei_v1") >>

AGARCE_CODECS ==
    << BleAdvCodec_id("agarce_v3", PyNone),
       BleAdvCodec_id("agarce_v4", PyNone) >>

REMOTES_CODECS ==
    << BleAdvCodec_id("remote_v4", PyNone) >>

MANTRA_CODECS ==
    << BleAdvCodec_id("mantra_v0", PyNone),
       BleAdvCodec_id("mantra_v0", "ios"),
       BleAdvCodec_id("mantra_v1", PyNone),
       BleAdvCodec_id("mantra_v1", "ios") >>

LE_CODECS ==
    << BleAdvCodec_id("lelight", PyNone) >>

RUIXIN_CODECS ==
    << BleAdvCodec_id("ruixin_v0", PyNone),
       BleAdvCodec_id("ruixin_v0", "r1") >>

RW_CODECS ==
    << BleAdvCodec_id("rwlight_mix", PyNone),
       BleAdvCodec_id("rwlight_mix", "ios") >>

get_codec_list ==
    LET l == FLCODECS \o LSCODECS \o ZHIJIA_CODECS \o ZHIMEI_CODECS \o AGARCE_CODECS
             \o REMOTES_CODECS \o MANTRA_CODECS \o LE_CODECS \o RUIXIN_CODECS \o RW_CODECS
    IN  [i \in 1..Len(l) |-> [codec_id |-> l[i].codec_id, match_id |-> l[i].match_id, pos |-> i]]

\* {x.codec_id: x for x in get_codec_list()}: a later codec takes the place of
\* an earlier one of the same codec_id
get_codecs ==
    LET l == get_codec_list
    IN  [k \in {l[i].codec_id : i \in DOMAIN l} |->
            l[CHOOSE i \in DOMAIN l :
                  /\ l[i].codec_id = k
                  /\ \A j \in DOMAIN l : l[j].codec_id = k => j <= i]]

(***************************************************************************)
(* adapters/__init__.py: BleAdvQueueItem.                                  *)
(***************************************************************************)
BleAdvAdapterAdvItem(interval, repeat, data, ign_duration) ==
    [interval |-> interval, repeat |-> repeat, data |-> data, ign_duration |-> ign_duration]

BleAdvQueueItem(key, repeat, delay_after, interval, data, ign_duration) ==
    [key |-> key, delay_after |-> delay_after, data |-> data, ign_duration |-> ign_duration,
     repeat |-> IF Len(data) = 1 THEN repeat ELSE 1, interval |-> interval,
     adv_items |-> <<>>]

\* [BleAdvAdapterAdvItem(...) for data in self.data for rep in repeats]
adv_items_of(qi, repeats) ==
    [k \in 1..(Len(qi.data) * Len(repeats)) |->
        BleAdvAdapterAdvItem(qi.interval, repeats[((k - 1) % Len(repeats)) + 1],
                             qi.data[((k - 1) \div Len(repeats)) + 1], qi.ign_duration)]

\* a variant of split_repeat that leaves out the remaining repeats
split_repeat_no_remainder(qi, adapter_bunch_time) ==
    LET adapter_max_repeat == Max(1, adapter_bunch_time \div qi.interval)
        repeats == [k \in 1..(qi.repeat \div adapter_max_repeat) |-> adapter_max_repeat]
    IN  [qi EXCEPT !.adv_items = adv_items_of(qi, repeats)]

\* BleAdvQueueItem.split_repeat: the item after the call.  The operands of
\* int(a / b) and floor(a / b) are not negative, so both are a \div b.
split_repeat(qi, adapter_bunch_time) ==
    LET adapter_max_repeat == Max(1, adapter_bunch_time \div qi.interval)
        full == [k \in 1..(qi.repeat \div adapter_max_repeat) |-> adapter_max_repeat]
        rem_repeats == qi.repeat % adapter_max_repeat
        repeats == IF rem_repeats > 0 THEN Append(full, rem_repeats) ELSE full
    IN  [qi EXCEPT !.adv_items = adv_items_of(qi, repeats)]

\* greatest repeat asked of an item
MaxRepeat == 10

\* intervals of an item and bunch times of an adapter, in ms
SplitIntervals == {1, 10, 20, 100}

SplitBunchTimes == {0, 5, 60, 150}

\* the data of an item: none, one, or several buffers
SplitData == {<<>>, <<<<113, 105>>>>, <<<<1>>, <<2>>>>, <<<<1>>, <<2>>, <<3>>>>, <<<<2>>, <<1>>>>}

(***************************************************************************)
(* The adapter specification: one BleAdvAdapter after async_init, its      *)
(* _dequeue task, callers of enqueue, the _unlock_queue tasks and one call *)
(* of drain().  A step runs a coroutine from one suspension to the next:   *)
(* Event.wait() on a set event, acquiring the free Lock and awaiting       *)
(* _lock_queue_for do not suspend, and no coroutine suspends while it      *)
(* holds the Lock.  A queued item is the BleAdvQueueItem and no, the       *)
(* number of the enqueue call that brought it.                             *)
(***************************************************************************)
\* number of enqueue calls
MaxEnq == 3

\* BluetoothHCIAdapter: bunch_adv_time
AdapterBunchTime == 60

\* key None of an injected item
NoKey == -1

AdapterQueues == {"q1", "q2"}

\* items handed to enqueue: those of test_adapter, and one without key
AdapterItems ==
    { BleAdvQueueItem(20, 1, 150, 60, <<<<1>>>>, 2),
      BleAdvQueueItem(30, 2, 100, 60, <<<<2>>>>, 2),
      BleAdvQueueItem(NoKey, 1, 0, 60, <<<<3>>>>, 2) }

\* BleAdvQueueItem.has_next
has_next(qi) == qi.adv_items # <<>>

\* position of queue_id in _queues, 0 for None
queues_index_get(a, queue_id) ==
    IF \E i \in DOMAIN a.queues_index : a.queues_index[i] = queue_id
    THEN CHOOSE i \in DOMAIN a.queues_index : a.queues_index[i] = queue_id
    ELSE 0

\* a variant of enqueue that keeps the pending items with the key of the new one
enqueue_keep_same_key(a, queue_id, it) ==
    LET tq_ind == queues_index_get(a, queue_id)
    IN  IF tq_ind = 0
        THEN [a EXCEPT !.queues_index = Append(@, queue_id),
                       !.queues = Append(@, <<it>>),
                       !.locked_tasks = Append(@, FALSE),
                       !.qlen = @ + 1,
                       !.add_event = TRUE]
        ELSE [a EXCEPT !.queues[tq_ind] = Append(@, it), !.add_event = TRUE]

\* BleAdvAdapter.enqueue, after item.split_repeat: the adapter after the call
enqueue(a, queue_id, it) ==
    LET tq_ind == queues_index_get(a, queue_id)
    IN  IF tq_ind = 0
        THEN [a EXCEPT !.queues_index = Append(@, queue_id),
                       !.queues = Append(@, <<it>>),
                       !.locked_tasks = Append(@, FALSE),
                       !.qlen = @ + 1,
                       !.add_event = TRUE]
        ELSE [a EXCEPT !.queues[tq_ind] =
                           Append(IF it.qi.key # NoKey
                                  THEN SelectSeq(@, LAMBDA x : x.qi.key # it.qi.key)
                                  ELSE @, it),
                       !.add_event = TRUE]

\* the for loop of _dequeue with n rounds to go: the adapter after it, the
\* chunk to advertise and the lock delay
RECURSIVE dequeue_for(_, _)
dequeue_for(a, n) ==
    IF n = 0 THEN [a |-> a, item |-> NoAdvItem, lock_delay |-> 0]
    ELSE LET cur == (a.cur_ind + 1) % a.qlen
             a1  == [a EXCEPT !.cur_ind = cur]
             tq  == a1.queues[cur + 1]
         IN  IF a1.locked_tasks[cur + 1] THEN dequeue_for(a1, n - 1)
             ELSE IF Len(tq) > 0
                  THEN LET it   == tq[1]
                           item == IF has_next(it.qi)
                                   THEN [adv |-> Head(it.qi.adv_items), no |-> it.no]
                                   ELSE NoAdvItem
                           rest == [it EXCEPT !.qi.adv_items =
                                                  IF @ = <<>> THEN <<>> ELSE Tail(@)]
                       IN  IF ~has_next(rest.qi)
                           THEN [a |-> [a1 EXCEPT !.advertise_on_going = TRUE,
                                                  !.queues[cur + 1] = Tail(tq)],
                                 item |-> item, lock_delay |-> it.qi.delay_after]
                           ELSE [a |-> [a1 EXCEPT !.advertise_on_going = TRUE,
                                                  !.queues[cur + 1][1] = rest],
                                 item |-> item, lock_delay |-> 0]
                  ELSE dequeue_for(a1, n - 1)

\* a variant of _dequeue whose scan starts at the first queue every time
dequeue_round_from_first(a) ==
    LET r == dequeue_for([a EXCEPT !.advertise_on_going = FALSE, !.cur_ind = -1], a.qlen)
    IN  IF r.item # NoAdvItem
        THEN [a |-> [r.a EXCEPT !.add_event = FALSE],
              task |-> [pc |-> "advertise", item |-> r.item, lock_delay |-> r.lock_delay]]
        ELSE [a |-> [r.a EXCEPT !.add_event = FALSE, !.advertise_on_going = FALSE],
              task |-> [pc |-> "wait", item |-> NoAdvItem, lock_delay |-> 0]]

\* _dequeue from the top of its loop, the event being set, up to its next
\* suspension: at _advertise with a chunk, or at the wait for the event
dequeue_round(a) ==
    LET r == dequeue_for([a EXCEPT !.advertise_on_going = FALSE], a.qlen)
    IN  IF r.item # NoAdvItem
        THEN [a |-> [r.a EXCEPT !.add_event = FALSE],
              task |-> [pc |-> "advertise", item |-> r.item, lock_delay |-> r.lock_delay]]
        ELSE [a |-> [r.a EXCEPT !.add_event = FALSE, !.advertise_on_going = FALSE],
              task |-> [pc |-> "wait", item |-> NoAdvItem, lock_delay |-> 0]]

\* a variant of _lock_queue_for that starts no _unlock_queue task
lock_queue_for_never(a, qind, delay) == a

\* _lock_queue_for
lock_queue_for(a, qind, delay) ==
    IF delay = 0 THEN a ELSE [a EXCEPT !.locked_tasks[qind + 1] = TRUE]

\* a variant of the condition of drain that looks at the queues and the locks only
drain_waits_no_on_going(a) ==
    \/ \E q \in DOMAIN a.queues : Len(a.queues[q]) > 0
    \/ \E q \in DOMAIN a.locked_tasks : a.locked_tasks[q]

\* the condition of the while loop of drain
drain_waits(a) ==
    \/ \E q \in DOMAIN a.queues : Len(a.queues[q]) > 0
    \/ a.advertise_on_going
    \/ \E q \in DOMAIN a.locked_tasks : a.locked_tasks[q]

\* every item enqueued and not replaced has had all its chunks advertised
AllAdvertised ==
    \A n \in DOMAIN alog.enq :
        n \notin alog.replaced =>
            Len(SelectSeq(alog.advertised, LAMBDA x : x.no = n))
                = Len(split_repeat(alog.enq[n].qi, AdapterBunchTime).adv_items)

InitAdapter ==
    /\ hci = [NoAdapter EXCEPT !.processing = TRUE]
    /\ dq = [NoDequeue EXCEPT !.pc = "wait"]
    /\ alog = NoLog
    /\ drn = NoDrain
    /\ IdleBesideAdapter

\* await adapter.enqueue(queue_id, qi)
Enqueue(queue_id, qi) ==
    /\ Len(alog.enq) < MaxEnq
    /\ LET it == [qi |-> split_repeat(qi, AdapterBunchTime), no |-> Len(alog.enq) + 1]
           tq_ind == queues_index_get(hci, queue_id)
       IN  /\ hci' = enqueue(hci, queue_id, it)
           /\ alog' = [alog EXCEPT
                  !.enq = Append(@, [queue_id |-> queue_id, qi |-> qi]),
                  !.replaced = @ \cup
                      (IF tq_ind = 0 \/ qi.key = NoKey THEN {}
                       ELSE {hci.queues[tq_ind][k].no : k \in
                               {j \in DOMAIN hci.queues[tq_ind] :
                                    hci.queues[tq_ind][j].qi.key = qi.key}})]
    /\ UNCHANGED <<dq, drn, besideAdapter>>

\* the _dequeue task is woken by the event
DequeueWake ==
    /\ dq.pc = "wait"
    /\ hci.processing
    /\ hci.add_event
    /\ \E r \in {dequeue_round(hci)} :
           /\ hci' = r.a
           /\ dq' = r.task
    /\ UNCHANGED <<alog, drn, besideAdapter>>

\* _advertise returns: the queue is locked for the delay, the event is set and
\* the loop goes round
AdvertiseReturns ==
    /\ dq.pc = "advertise"
    /\ alog' = [alog EXCEPT !.advertised = Append(@, dq.item)]
    /\ \E r \in {dequeue_round([lock_queue_for(hci, hci.cur_ind, dq.lock_delay)
                                  EXCEPT !.add_event = TRUE])} :
           /\ hci' = r.a
           /\ dq' = r.task
    /\ UNCHANGED <<drn, besideAdapter>>

\* _unlock_queue(qind, delay) wakes from its sleep
UnlockQueue(qind) ==
    /\ hci.locked_tasks[qind + 1]
    /\ hci' = [hci EXCEPT !.locked_tasks[qind + 1] = FALSE, !.add_event = TRUE]
    /\ UNCHANGED <<dq, alog, drn, besideAdapter>>

\* await adapter.drain(): the first test of its condition
DrainCall ==
    /\ drn.pc = ""
    /\ drn' = IF drain_waits(hci) THEN [drn EXCEPT !.pc = "sleep"]
              ELSE [pc |-> "returned", in_flight |-> dq.pc = "advertise",
                    complete |-> AllAdvertised]
    /\ UNCHANGED <<hci, dq, alog, besideAdapter>>

\* drain wakes from asyncio.sleep(0.1) and finds nothing to wait for
DrainReturns ==
    /\ drn.pc = "sleep"
    /\ ~drain_waits(hci)
    /\ drn' = [pc |-> "returned", in_flight |-> dq.pc = "advertise",
               complete |-> AllAdvertised]
    /\ UNCHANGED <<hci, dq, alog, besideAdapter>>

NextAdapter ==
    \/ \E queue_id \in AdapterQueues, qi \in AdapterItems : Enqueue(queue_id, qi)
    \/ DequeueWake
    \/ AdvertiseReturns
    \/ \E qind \in 0..(hci.qlen - 1) : UnlockQueue(qind)
    \/ DrainCall
    \/ DrainReturns

\* the event loop runs every task that is ready, every _advertise returns and
\* every sleep ends
SpecAdapter ==
    /\ InitAdapter
    /\ [][NextAdapter]_vars
    /\ WF_vars(DequeueWake)
    /\ WF_vars(AdvertiseReturns)
    /\ WF_vars(\E qind \in 0..(hci.qlen - 1) : UnlockQueue(qind))
    /\ WF_vars(DrainReturns)

(***************************************************************************)
(* The function-level specification: a behaviour is one call of a function *)
(* on arguments drawn from bounded sets; pin holds the call and pout what  *)
(* it returned.                                                            *)
(***************************************************************************)
\* longest buffer handed to a function
MaxRaw == 3

\* byte values of the buffers: the part lengths and the part types FromRaw
\* tells apart, and bytes with low and high bits set
PureBytes == {0, 2, 3, 22, 255}

PureBufs == UNION {[1..n -> PureBytes] : n \in 0..MaxRaw}

\* ble types of the advertisements built: none, the four FromRaw knows, another
PureTypes == {0, 3, 5, 22, 255, 9}

PureFlags == {0, 25}

PureSeeds == {0, 1, 37, 127, 128, 255}

\* BleAdvAdvertisement.__eq__
BleAdvAdvertisement_eq(a, b) == a.ble_type = b.ble_type /\ a.raw = b.raw

InitPure ==
    /\ pin = NoPure
    /\ pout = NoPure
    /\ IdleBesidePure

\* adv.to_raw(), FromRaw of the buffer, and f = FromRaw(x).to_raw() once and twice
PureAdv(adv) ==
    /\ pin = NoPure
    /\ pin' = [fn |-> "FromRaw", adv |-> adv]
    /\ \E b \in {to_raw(adv)} :
       \E fb \in {to_raw(FromRaw(b))} :
           pout' = [fn |-> "FromRaw", b |-> b, parsed |-> FromRaw(b), fb |-> fb,
                    ffb |-> to_raw(FromRaw(fb))]
    /\ UNCHANGED besidePure

\* whiten(buffer, seed), and whiten of the outcome with the same seed
PureWhiten(buffer, seed) ==
    /\ pin = NoPure
    /\ pin' = [fn |-> "whiten", buffer |-> buffer, seed |-> seed]
    /\ \E once \in {whiten(buffer, seed)} :
           pout' = [fn |-> "whiten", once |-> once, twice |-> whiten(once, seed)]
    /\ UNCHANGED besidePure

\* get_codec_list()[i], and what get_codecs() holds under its codec_id and its
\* match_id
PureRegistry(i) ==
    /\ pin = NoPure
    /\ pin' = [fn |-> "get_codecs", i |-> i]
    /\ \E l \in {get_codec_list}, d \in {get_codecs} :
           pout' = [fn |-> "get_codecs", codec |-> l[i], held |-> d[l[i].codec_id],
                    match_held |-> l[i].match_id \in DOMAIN d,
                    len_list |-> Len(l), len_dict |-> Cardinality(DOMAIN d)]
    /\ UNCHANGED besidePure

\* BleAdvQueueItem(0, repeat, 0, interval, data, 2).split_repeat(bunch_time)
PureSplit(repeat, interval, data, bunch_time) ==
    /\ pin = NoPure
    /\ pin' = [fn |-> "split_repeat", repeat |-> repeat, interval |-> interval, data |-> data,
               bunch_time |-> bunch_time]
    /\ pout' = [fn |-> "split_repeat",
                qi |-> split_repeat(BleAdvQueueItem(0, repeat, 0, interval, data, 2), bunch_time)]
    /\ UNCHANGED besidePure

NextPure ==
    \/ \E ble_type \in PureTypes, raw \in PureBufs, ad_flag \in PureFlags :
           PureAdv(BleAdvAdvertisement(ble_type, raw, ad_flag))
    \/ \E buffer \in PureBufs, seed \in PureSeeds : PureWhiten(buffer, seed)
    \/ \E i \in DOMAIN get_codec_list : PureRegistry(i)
    \/ \E repeat \in 0..MaxRepeat, interval \in SplitIntervals, data \in SplitData,
          bunch_time \in SplitBunchTimes : PureSplit(repeat, interval, data, bunch_time)

SpecPure == InitPure /\ [][NextPure]_vars

(***************************************************************************)
(* ble_adv_split/coordinator.py with its clock: every cache entry carries  *)
(* its expiry time, handle_raw_adv prunes the caches against               *)
(* datetime.now(), and the listening mode runs until its stop time.  Time  *)
(* is in milliseconds and passes between the calls; a call takes no time.  *)
(* The buffers are those of WinBuffers; what the codecs make of them is    *)
(* computed once, when the coordinator is built (wtab).                    *)
(***************************************************************************)
MaxWinSends == 2

MaxWinRecvs == 2

\* receptions while the coordinator sends
MaxEchoes == 1

MaxTicks == 1

MaxListens == 1

\* the seed randint draws for a device that sends
WinSeedDraw == 1

\* the time that passes between two calls
TickSteps == {500, 12000}

\* BleAdvCodec.ign_duration
BleAdvCodec_ign_duration == 12000

FanLampEncoderV1b_ign_duration == 1500

\* acodec.ign_duration of the codec registered as codec_id
codec_ign_duration(codec_id) ==
    IF CODECS(codec_id).cls = "FanLampEncoderV1b" THEN FanLampEncoderV1b_ign_duration
    ELSE BleAdvCodec_ign_duration

\* coordinator.ign_duration, CONF_IGN_DURATION's default
CoordIgnDuration == 60000

\* the inject_raw service as called: repeat, interval (ms), listening time (s)
InjectRepeat == 3

InjectInterval == 20

ListenSeconds == 1

\* the codecs the coordinator is built with, in the order of the dict
WinCodecs == <<"fanlamp_pro_v1", "fanlamp_pro_v1/r0", "lampsmart_pro_v1">>

WinDeviceIds == {"d2", "d3"}

\* the devices whose entities send
WinSenders == {"d2"}

Reverse(s) == [i \in 1..Len(s) |-> s[Len(s) + 1 - i]]

\* _recompute_in_use_codecs: a Python set of codec ids, kept here in the
\* order of coordinator.codecs
win_in_use_codecs(devs) ==
    LET match_ids == {CODECS(codec_id).match_id :
                        codec_id \in UNION {Device(devs[i]).in_use_codec_ids : i \in DOMAIN devs}}
    IN  SelectSeq(WinCodecs, LAMBDA x : CODECS(x).match_id \in match_ids)

\* an advertisement of another controller that both fanlamp_pro_v1 and
\* lampsmart_pro_v1 decode: cmd 0x12, id 12324, index 1
BothRaw ==
    to_raw(encode_advs(CODECS("fanlamp_pro_v1"), BleAdvEncCmd(18, 0, 0, 0, 0),
                       [BleAdvConfig(12324, 1) EXCEPT !.tx_count = 7, !.seed = 4660], 0).advs[1])

WinForeignRaws == {BothRaw, OtherRaw, ShortRaw}

\* device.apply_cmd of the command of device d, for the n-th time
RECURSIVE WinApply(_, _)
WinApply(d, n) ==
    apply_cmd(Device(d), IF n = 1 THEN Device(d).config ELSE WinApply(d, n - 1).conf,
              CHOOSE enc_cmd \in DeviceCmds(d) : TRUE, WinSeedDraw)

WinAppliedAll == [d \in WinSenders |-> [n \in 1..MaxWinSends |-> WinApply(d, n)]]

WinApplied(d, n) == wtab.applied[d][n]

\* every buffer an adapter is handed or hears
WinBuffers ==
    WinForeignRaws \cup UNION {Range(WinAppliedAll[d][n].data) :
                                 d \in WinSenders, n \in 1..MaxWinSends}

\* acodec.decode_adv(BleAdvAdvertisement.FromRaw(raw_adv)) of every codec
\* and buffer
WinDecodedAll ==
    [codec_id \in Range(WinCodecs) |->
        [raw_adv \in WinBuffers |-> decode_adv(CODECS(codec_id), FromRaw(raw_adv))]]

WinDecoded(codec_id, raw_adv) == wtab.decoded[codec_id][raw_adv]

\* {x: y for x, y in last_advs.items() if (y > now)}
Unexpired(last_advs, now) ==
    LET keep == {x \in DOMAIN last_advs : last_advs[x] > now}
    IN  IF keep = {} THEN <<>> ELSE [x \in keep |-> last_advs[x]]

\* a variant of advertise that leaves the expiry of a buffer it already holds
advertise_setdefault(emits, now, data, ign_dur) ==
    emits @@ [x \in Range(data) |-> now + ign_dur]

\* BleAdvCoordinator.advertise: _emit_last_advs after its loop over qi.data
advertise(emits, now, data, ign_dur) ==
    [x \in Range(data) |-> now + ign_dur] @@ emits

\* BleAdvCoordinator.is_listening at now: the stop time after it (-1 for None)
is_listening(stop_listening_time, now) ==
    IF stop_listening_time # -1 /\ now > stop_listening_time THEN -1 ELSE stop_listening_time

\* _handle_listening, its loop over coordinator.codecs from codec_ids on
RECURSIVE handle_listening_from(_, _, _, _)
handle_listening_from(codec_ids, adapter_id, raw_adv, acc) ==
    IF codec_ids = <<>> THEN acc
    ELSE LET codec_id == Head(codec_ids)
             r        == WinDecoded(codec_id, raw_adv)
             entry    == [adapter_id |-> adapter_id, codec_id |-> codec_id,
                          match_id |-> CODECS(codec_id).match_id, conf |-> r.conf]
         IN  IF r.st = "raise" THEN [acc EXCEPT !.raised = TRUE]
             ELSE handle_listening_from(Tail(codec_ids), adapter_id, raw_adv,
                      IF r.st = "ok" /\ entry \notin Range(acc.confs)
                      THEN [acc EXCEPT !.confs = Append(@, entry)] ELSE acc)

\* _handle_listening
handle_listening(c, adapter_id, raw_adv) ==
    LET acc == handle_listening_from(WinCodecs, adapter_id, raw_adv,
                                     [confs |-> c.listened_decoded_confs, raised |-> FALSE])
    IN  [c |-> [c EXCEPT !.listened_raw_advs =
                             IF raw_adv \in Range(@) THEN @ ELSE Append(@, raw_adv),
                         !.listened_decoded_confs = acc.confs],
         raised |-> acc.raised]

\* BleAdvRecvItem with its del_time
BleAdvRecvItemT(del_time, match_id, pub_devices, config_, enc_cmd, codec_id) ==
    [del_time |-> del_time, match_id |-> match_id, pub_devices |-> pub_devices,
     conf |-> config_, enc_cmd |-> enc_cmd, codec_id |-> codec_id, read |-> config_]

\* the deliveries (async_on_command) that changed the item before into after
Published(before, after) ==
    {[dev |-> d, codec_id |-> after.codec_id] : d \in after.pub_devices \ before.pub_devices}

\* handle_raw_adv, its loop over the in-use codecs from codec_ids on.  acc
\* holds whether a BleAdvRecvItem was created, the items, _dec_last_advs
\* (the number of the item under each key), the deliveries made and whether
\* an exception left the loop.
RECURSIVE win_decode_in_use(_, _, _, _, _, _)
win_decode_in_use(codec_ids, raw_adv, now, adapter_id, c, acc) ==
    IF codec_ids = <<>> THEN acc
    ELSE LET codec_id == Head(codec_ids)
             acodec   == CODECS(codec_id)
             r        == WinDecoded(codec_id, raw_adv)
             n        == Len(acc.items) + 1
             made     == BleAdvRecvItemT(now + codec_ign_duration(codec_id), acodec.match_id, {},
                                         r.conf, r.enc, codec_id)
             recv     == publish_to_devices(c.devices, c.config, adapter_id, made)
             rest(acc2) == win_decode_in_use(Tail(codec_ids), raw_adv, now, adapter_id, c, acc2)
             reencoded(reenc) ==
                 LET kept == [recv EXCEPT !.conf = reenc.conf]
                 IN  IF reenc.raised
                     THEN [acc EXCEPT !.recv = TRUE, !.items = Append(@, kept),
                                      !.pub = @ \cup Published(made, recv), !.raised = TRUE]
                     ELSE rest([recv |-> TRUE, items |-> Append(acc.items, kept),
                                dec_last |-> [x \in {reenc.advs[i].raw : i \in DOMAIN reenc.advs}
                                                |-> n] @@ acc.dec_last,
                                pub |-> acc.pub \cup Published(made, recv), raised |-> FALSE])
         IN  IF r.st = "raise" THEN [acc EXCEPT !.raised = TRUE]
             ELSE IF r.st = "none" THEN rest(acc)
             ELSE IF ~acodec.multi_advs
             THEN rest([recv |-> TRUE, items |-> Append(acc.items, recv),
                        dec_last |-> (FromRaw(raw_adv).raw :> n) @@ acc.dec_last,
                        pub |-> acc.pub \cup Published(made, recv), raised |-> FALSE])
             ELSE CHOOSE out \in {reencoded(x) : x \in {encode_advs(acodec, r.enc, r.conf, 0)}} :
                     TRUE

\* what a call of handle_raw_adv that returns early leaves
Ignored(c) == [c |-> c, pub |-> {}, decoded |-> FALSE, listened |-> FALSE]

\* handle_raw_adv from its listening step on, the caches pruned and the
\* buffer found neither in _emit_last_advs nor in _raw_last_advs
handle_raw_adv_new(c, now, adapter_id, raw_adv, rev) ==
    LET adv  == FromRaw(raw_adv)
        stop == is_listening(c.stop_listening_time, now)
        lis  == IF stop # -1
                THEN handle_listening([c EXCEPT !.stop_listening_time = stop],
                                      adapter_id, raw_adv)
                ELSE [c |-> [c EXCEPT !.stop_listening_time = stop], raised |-> FALSE]
        c2   == lis.c
        cached ==
            LET n == c2.dec_last[adv.raw]
                after == publish_to_devices(c2.devices, c2.config, adapter_id, c2.items[n])
            IN  [c |-> [c2 EXCEPT !.items[n] = after], pub |-> Published(c2.items[n], after),
                 decoded |-> TRUE, listened |-> stop # -1]
        fresh(acc) ==
            [c |-> [c2 EXCEPT !.items = acc.items, !.dec_last = acc.dec_last,
                              !.raw_last = IF ~acc.recv /\ ~acc.raised
                                           THEN (raw_adv :> now + CoordIgnDuration) @@ @
                                           ELSE @],
             pub |-> acc.pub, decoded |-> TRUE, listened |-> stop # -1]
    IN  IF lis.raised THEN [c |-> c2, pub |-> {}, decoded |-> FALSE, listened |-> TRUE]
        ELSE IF adv.raw \in DOMAIN c2.dec_last THEN cached
        ELSE fresh(win_decode_in_use(IF rev THEN Reverse(c2.in_use) ELSE c2.in_use, raw_adv,
                                     now, adapter_id, c2,
                                     [recv |-> FALSE, items |-> c2.items,
                                      dec_last |-> c2.dec_last, pub |-> {}, raised |-> FALSE]))

\* a variant of handle_raw_adv that leaves the expiry of a buffer it finds in
\* _raw_last_advs as it is
handle_raw_adv_no_restart(c, now, adapter_id, raw_adv, rev) ==
    IF Len(raw_adv) < 8 THEN Ignored(c)
    ELSE LET c1 == [c EXCEPT !.raw_last = Unexpired(@, now),
                             !.emit_last = Unexpired(@, now),
                             !.dec_last =
                                 LET keep == {x \in DOMAIN @ : c.items[@[x]].del_time > now}
                                 IN  IF keep = {} THEN <<>> ELSE [x \in keep |-> @[x]]]
         IN  IF raw_adv \in DOMAIN c1.emit_last THEN Ignored(c1)
             ELSE IF raw_adv \in DOMAIN c1.raw_last THEN Ignored(c1)
             ELSE handle_raw_adv_new(c1, now, adapter_id, raw_adv, rev)

\* BleAdvCoordinator.handle_raw_adv at now: the coordinator after it, the
\* devices whose async_on_command was called, whether the buffer went to
\* the decoded cache or the codecs, and whether the listening mode saw it.
\* The loop over the set _in_use_codecs runs in an order the build chooses:
\* that of coordinator.codecs or (rev) its reverse.
handle_raw_adv(c, now, adapter_id, raw_adv, rev) ==
    IF Len(raw_adv) < 8 THEN Ignored(c)
    ELSE LET c1 == [c EXCEPT !.raw_last = Unexpired(@, now),
                             !.emit_last = Unexpired(@, now),
                             !.dec_last =
                                 LET keep == {x \in DOMAIN @ : c.items[@[x]].del_time > now}
                                 IN  IF keep = {} THEN <<>> ELSE [x \in keep |-> @[x]]]
         IN  IF raw_adv \in DOMAIN c1.emit_last THEN Ignored(c1)
             ELSE IF raw_adv \in DOMAIN c1.raw_last
             THEN Ignored([c1 EXCEPT !.raw_last[raw_adv] = now + CoordIgnDuration])
             ELSE handle_raw_adv_new(c1, now, adapter_id, raw_adv, rev)

\* what the in-use codecs make of raw_adv: the match_id and Config of every
\* decoding
Accepted(c, raw_adv) ==
    IF Len(raw_adv) < 8 THEN {}
    ELSE {[match_id |-> CODECS(codec_id).match_id, id |-> WinDecoded(codec_id, raw_adv).conf.id,
           index |-> WinDecoded(codec_id, raw_adv).conf.index] :
            codec_id \in {x \in Range(c.in_use) : WinDecoded(x, raw_adv).st = "ok"}}

InitWindow ==
    /\ co = [NoCoord EXCEPT !.config = [d \in WinDeviceIds |-> Device(d).config]]
    /\ clock = 0
    /\ wlog = NoWinLog
    /\ wtab = [applied |-> WinAppliedAll, decoded |-> WinDecodedAll]
    /\ IdleBesideWindow

\* coordinator.add_device(device)
WinAddDevice(d) ==
    /\ d \notin Range(co.devices)
    /\ co' = [co EXCEPT !.devices = Append(@, d),
                        !.in_use = win_in_use_codecs(Append(co.devices, d)),
                        !.raw_last = <<>>]
    /\ UNCHANGED <<clock, wlog, wtab, besideWindow>>

\* coordinator.remove_device(device)
WinRemoveDevice(d) ==
    /\ d \in Range(co.devices)
    /\ co' = [co EXCEPT !.devices = SelectSeq(@, LAMBDA x : x # d),
                        !.in_use = win_in_use_codecs(SelectSeq(co.devices, LAMBDA x : x # d)),
                        !.dec_last = <<>>]
    /\ UNCHANGED <<clock, wlog, wtab, besideWindow>>

\* the log of hand-overs after one advertise call: for every buffer the
\* expiry this call promises and the latest expiry any call promised
Handed(handed, data, now, ign_dur) ==
    [x \in Range(data) |->
        [last |-> now + ign_dur,
         max  |-> IF x \in DOMAIN handed THEN Max(handed[x].max, now + ign_dur)
                  ELSE now + ign_dur]] @@ handed

\* device.apply_cmd(enc_cmd) of a registered device, for the n-th time:
\* coordinator.advertise for each of its adapters, with the ign_duration of
\* the device's codec
WinApplyCmd(d, n) ==
    /\ d \in Range(co.devices)
    /\ wlog.sends < MaxWinSends
    /\ co.config[d] = (IF n = 1 THEN Device(d).config ELSE WinApplied(d, n - 1).conf)
    /\ \E r \in {WinApplied(d, n)} :
         LET ign_dur == codec_ign_duration(Device(d).codec_id)
             sent    == r.adapter_ids # {}
         IN  /\ co' = [co EXCEPT !.config[d] = r.conf,
                                 !.emit_last = IF sent THEN advertise(@, clock, r.data, ign_dur)
                                               ELSE @]
             /\ wlog' = [wlog EXCEPT !.sends = @ + 1,
                                     !.handed = IF sent THEN Handed(@, r.data, clock, ign_dur)
                                                ELSE @]
    /\ UNCHANGED <<clock, wtab, besideWindow>>

\* coordinator.inject_raw of raw_adv for an adapter the coordinator knows
InjectRaw(raw_adv) ==
    /\ wlog.sends < MaxWinSends
    /\ LET ign_dur == 4 * InjectRepeat * InjectInterval
       IN  /\ co' = [co EXCEPT !.emit_last = advertise(@, clock, <<raw_adv>>, ign_dur)]
           /\ wlog' = [wlog EXCEPT !.sends = @ + 1,
                                   !.handed = Handed(@, <<raw_adv>>, clock, ign_dur)]
    /\ UNCHANGED <<clock, wtab, besideWindow>>

\* coordinator.start_listening(max_duration)
StartListening(max_duration) ==
    /\ wlog.listens < MaxListens
    /\ co' = [co EXCEPT !.stop_listening_time = clock + 1000 * max_duration,
                        !.listened_raw_advs = <<>>,
                        !.listened_decoded_confs = <<>>]
    /\ wlog' = [wlog EXCEPT !.listens = @ + 1]
    /\ UNCHANGED <<clock, wtab, besideWindow>>

\* an adapter hears raw_adv: coordinator.handle_raw_adv(adapter_id, orig, raw_adv).
\* The log keeps, for every device and buffer, when the window of the last
\* delivery ends, in again the devices called while that window ran, and in
\* missed the registered devices that match what an in-use codec makes of the
\* buffer and use this adapter, and that were called neither now nor in a
\* window that still runs.
WinHandleRawAdv(adapter_id, raw_adv, rev, max_recvs) ==
    /\ wlog.recvs < max_recvs
    /\ \E r \in {handle_raw_adv(co, clock, adapter_id, raw_adv, rev)} :
         LET reached == {<<p.dev, raw_adv>> : p \in r.pub}
             matching == {d \in Range(co.devices) :
                            \E x \in Accepted(co, raw_adv) :
                               BleAdvBaseDevice_match(Device(d), co.config[d], x.match_id,
                                                      adapter_id, [id |-> x.id, index |-> x.index])}
             ends(k) == clock + codec_ign_duration(
                                    (CHOOSE p \in r.pub : p.dev = k[1]).codec_id)
         IN  /\ co' = r.c
             /\ wlog' = [wlog EXCEPT
                    !.recvs = @ + 1,
                    !.deliv = [k \in reached |-> ends(k)] @@ @,
                    !.recv = [raw |-> raw_adv, adapter_id |-> adapter_id, at |-> clock,
                              pub |-> {p.dev : p \in r.pub},
                              decoded |-> r.decoded, listened |-> r.listened,
                              accepted |-> Accepted(co, raw_adv),
                              last_expiry |-> IF raw_adv \in DOMAIN wlog.handed
                                              THEN wlog.handed[raw_adv].last ELSE -1,
                              max_expiry |-> IF raw_adv \in DOMAIN wlog.handed
                                             THEN wlog.handed[raw_adv].max ELSE -1,
                              again |-> {k[1] : k \in {x \in reached \cap DOMAIN wlog.deliv :
                                                          wlog.deliv[x] > clock}},
                              missed |-> IF r.decoded
                                         THEN {d \in matching :
                                                 /\ d \notin {p.dev : p \in r.pub}
                                                 /\ ~(/\ <<d, raw_adv>> \in DOMAIN wlog.deliv
                                                      /\ wlog.deliv[<<d, raw_adv>>] > clock)}
                                         ELSE {}]]
    /\ UNCHANGED <<clock, wtab, besideWindow>>

\* time passes
Tick(dt) ==
    /\ wlog.ticks < MaxTicks
    /\ clock' = clock + dt
    /\ wlog' = [wlog EXCEPT !.ticks = @ + 1]
    /\ UNCHANGED <<co, wtab, besideWindow>>

\* the buffers an adapter can hear: those of other controllers and those
\* the coordinator handed to an adapter
WinAir == {BothRaw, OtherRaw} \cup DOMAIN wlog.handed

\* the coordinator sends, listens and hears
NextWindow ==
    \/ \E d \in WinSenders : WinAddDevice(d)
    \/ \E d \in WinSenders : WinRemoveDevice(d)
    \/ \E d \in WinSenders, n \in 1..MaxWinSends : WinApplyCmd(d, n)
    \/ \E raw_adv \in DOMAIN wlog.handed : InjectRaw(raw_adv)
    \/ StartListening(ListenSeconds)
    \/ \E adapter_id \in Adapters, raw_adv \in WinAir, rev \in BOOLEAN :
          WinHandleRawAdv(adapter_id, raw_adv, rev, MaxEchoes)
    \/ \E dt \in TickSteps : Tick(dt)

\* the coordinator hears other controllers while devices come and go
NextDeliver ==
    \/ \E d \in WinDeviceIds : WinAddDevice(d)
    \/ \E d \in WinDeviceIds : WinRemoveDevice(d)
    \/ \E adapter_id \in Adapters, raw_adv \in WinForeignRaws, rev \in BOOLEAN :
          WinHandleRawAdv(adapter_id, raw_adv, rev, MaxWinRecvs)
    \/ \E dt \in TickSteps : Tick(dt)

SpecDeliver == InitWindow /\ [][NextDeliver]_vars

SpecWindow == InitWindow /\ [][NextWindow]_vars

(***************************************************************************)
(* The coordinator over the window of coordinator.ign_duration: it hears   *)
(* other controllers, three times at most, 40 s apart, while a device      *)
(* comes and goes.                                                         *)
(***************************************************************************)
MaxIgnRecvs == 3

MaxIgnTicks == 2

IgnTickSteps == {40000}

\* time passes
IgnTick(dt) ==
    /\ wlog.ticks < MaxIgnTicks
    /\ clock' = clock + dt
    /\ wlog' = [wlog EXCEPT !.ticks = @ + 1]
    /\ UNCHANGED <<co, wtab, besideWindow>>

NextIgnore ==
    \/ \E d \in WinSenders : WinAddDevice(d)
    \/ \E d \in WinSenders : WinRemoveDevice(d)
    \/ \E adapter_id \in Adapters, raw_adv \in WinForeignRaws, rev \in BOOLEAN :
          WinHandleRawAdv(adapter_id, raw_adv, rev, MaxIgnRecvs)
    \/ \E dt \in IgnTickSteps : IgnTick(dt)

SpecIgnore == InitWindow /\ [][NextIgnore]_vars

(***************************************************************************)
(* ble_adv_split/async_socket: an AsyncSocket with its receive task.  The  *)
(* owner calls async_init, async_start_recv and close as the adapters and  *)
(* the tests do: async_start_recv after async_init, a started socket is    *)
(* closed before it is initialised again, and a socket closed while        *)
(* async_start_recv is under way is dropped.  The peer sends, closes or    *)
(* breaks the connection at any time.  A step of the receive task runs     *)
(* from one suspension to the next.                                        *)
(***************************************************************************)
\* calls of async_start_recv
MaxLoops == 2

\* buffers the peer sends
MaxSockData == 2

\* what the peer can do to an open socket
PeerEvents == {"data", "eof", "broken"}

\* AsyncSocket._async_recv on the socket: no socket ends the loop, nothing
\* pending suspends in sock_recv, pending data is returned, a closed peer
\* gives b"" and so is_listening False, a broken pipe raises
async_recv(socket, pending) ==
    IF socket = "none" THEN "stop"
    ELSE CASE pending = "none"   -> "suspend"
           [] pending = "data"   -> "data"
           [] pending = "eof"    -> "stop"
           [] pending = "broken" -> "raise"

\* a variant of the end of the receive loop that calls the error callback
\* whatever the flag says
base_receive_end_unguarded(started) ==
    [functional_recv_started |-> FALSE, called |-> TRUE]

\* AsyncSocketBase._async_base_receive after its loop, with an error
\* callback set: the flag and whether the callback is called
base_receive_end(started) ==
    IF started THEN [functional_recv_started |-> FALSE, called |-> TRUE]
    ELSE [functional_recv_started |-> started, called |-> FALSE]

\* AsyncSocketBase._async_base_receive from its call of wait_recv_callback
\* to the next suspension or to its end; on_recv_raises says what the
\* receive callback does with data
base_receive(s, on_recv_raises) ==
    LET got == async_recv(s.socket, s.pending)
        over(why) ==
            \* the loop is over
            LET e == base_receive_end(s.functional_recv_started)
            IN  [s |-> [s EXCEPT !.recv_task = "done",
                                 !.pending = IF got = "data" THEN "none" ELSE @,
                                 !.functional_recv_started = e.functional_recv_started],
                 ended |-> why, called |-> e.called, data |-> got = "data"]
    IN  CASE got = "suspend" -> [s |-> [s EXCEPT !.recv_task = "recv"],
                                 ended |-> "", called |-> FALSE, data |-> FALSE]
          [] got = "data" ->
                IF on_recv_raises THEN over("exception")
                ELSE [s |-> [s EXCEPT !.recv_task = "recv", !.pending = "none"],
                      ended |-> "", called |-> FALSE, data |-> TRUE]
          [] got = "raise" -> over("peer")
          [] got = "stop"  -> over(IF s.socket = "none" THEN "nosocket" ELSE "peer")

InitSock ==
    /\ sck = NoSock
    /\ scklog = NoSockLog
    /\ IdleBesideSock

\* async_init: the callbacks are set and a socket is opened
SockAsyncInit ==
    /\ sck.phase \in {"new", "inited", "closed"}
    /\ scklog.loops < MaxLoops
    /\ scklog.closed < MaxLoops
    /\ sck' = [sck EXCEPT !.socket = "open", !.pending = "none", !.phase = "inited"]
    /\ UNCHANGED <<scklog, besideSock>>

\* the peer sends a buffer, closes the connection or breaks it
SockPeer(ev) ==
    /\ sck.socket = "open"
    /\ sck.pending = "none"
    /\ ev = "data" => scklog.recvd < MaxSockData
    /\ sck' = [sck EXCEPT !.pending = ev]
    /\ scklog' = [scklog EXCEPT !.recvd = IF ev = "data" THEN @ + 1 ELSE @]
    /\ UNCHANGED besideSock

\* async_start_recv is called: _setup_recv_loop creates the receive task and
\* waits for its event
SockStartRecv ==
    /\ sck.phase = "inited"
    /\ sck.start = "idle"
    /\ scklog.loops < MaxLoops
    /\ sck' = [sck EXCEPT !.ready_recv_event = FALSE, !.recv_task = "created",
                          !.start = "waiting", !.phase = "started"]
    /\ scklog' = [scklog EXCEPT !.loops = @ + 1, !.completed = FALSE, !.ended = "",
                                !.completed_at_end = FALSE, !.on_error = 0]
    /\ UNCHANGED besideSock

\* the receive task runs: for the first time, or because sock_recv returns
SockReceive(on_recv_raises) ==
    /\ \/ sck.recv_task = "created"
       \/ sck.recv_task = "recv" /\ sck.pending # "none"
    /\ \E r \in {base_receive([sck EXCEPT !.ready_recv_event = TRUE], on_recv_raises)} :
         /\ r.data \/ ~on_recv_raises
         /\ sck' = r.s
         /\ scklog' = IF r.ended = "" THEN scklog
                      ELSE [scklog EXCEPT !.ended = r.ended,
                                          !.completed_at_end = scklog.completed,
                                          !.on_error = IF r.called THEN @ + 1 ELSE @]
    /\ UNCHANGED besideSock

\* async_start_recv returns: the event is set
SockStartRecvReturns ==
    /\ sck.start = "waiting"
    /\ sck.ready_recv_event
    /\ sck' = [sck EXCEPT !.functional_recv_started = TRUE, !.start = "idle"]
    /\ scklog' = [scklog EXCEPT !.completed = TRUE]
    /\ UNCHANGED besideSock

\* the wait for the event of a task cancelled before it ran times out
SockStartRecvTimeout ==
    /\ sck.start = "waiting"
    /\ ~sck.ready_recv_event
    /\ sck.recv_task = "done"
    /\ sck' = [sck EXCEPT !.start = "idle"]
    /\ UNCHANGED <<scklog, besideSock>>

\* close(): the flag is reset, the socket closed, a task not done cancelled
SockClose ==
    /\ sck.phase \in {"inited", "started"}
    /\ sck' = [sck EXCEPT !.functional_recv_started = FALSE,
                          !.socket = "none", !.pending = "none",
                          !.recv_task = IF @ \in {"created", "recv"} THEN "cancelling" ELSE @,
                          !.phase = IF sck.start = "waiting" THEN "dropped" ELSE "closed"]
    /\ scklog' = [scklog EXCEPT !.closed = @ + 1]
    /\ UNCHANGED besideSock

\* the cancelled task ends: it never runs, or CancelledError makes it return
SockCancelled ==
    /\ sck.recv_task = "cancelling"
    /\ sck' = [sck EXCEPT !.recv_task = "done"]
    /\ scklog' = [scklog EXCEPT !.ended = "cancel", !.completed_at_end = scklog.completed]
    /\ UNCHANGED besideSock

NextSock ==
    \/ SockAsyncInit
    \/ \E ev \in PeerEvents : SockPeer(ev)
    \/ SockStartRecv
    \/ \E on_recv_raises \in BOOLEAN : SockReceive(on_recv_raises)
    \/ SockStartRecvReturns
    \/ SockStartRecvTimeout
    \/ SockClose
    \/ SockCancelled

SpecSock == InitSock /\ [][NextSock]_vars

(***************************************************************************)
(* ble_adv_split/adapters: a BluetoothHCIAdapter of an HCI manager, with   *)
(* calls of its _advertise.  The adapter was opened in one of its three    *)
(* advertising modes; every call runs from one suspension to the next: the *)
(* wait for a lock, the wait for the Command Complete of a command written *)
(* to the socket, the sleep.  The controller answers a command, executing  *)
(* it when it answers with success, or does not answer in time.  The       *)
(* adapter and the manager are closed by their async_final, the manager is *)
(* initialised again by its recovery, which builds new adapters and leaves *)
(* this one closed.  Beside the calls of _advertise, send_mgmt_cmd is      *)
(* called directly, as the manager does for its own commands.              *)
(***************************************************************************)
\* calls of _advertise
MaxAdvCalls == 2

\* initialisations of the manager after the first
MaxMgrInits == 1

AdvCallers == 1..MaxAdvCalls

\* the direct call of send_mgmt_cmd
CmdCaller == MaxAdvCalls + 1

BtCallers == AdvCallers \cup {CmdCaller}

AdvModes == {"hci", "ext", "mgmt"}

\* the return codes of the controller: HCI_SUCCESS or another
RetCodes == {"success", "failed"}

\* BluetoothHCIAdapter._hci_advertise: its commands and its sleep
hci_advertise == <<"disable", "params", "data", "enable", "sleep", "disable", "fake_data">>

\* BluetoothHCIAdapter._hci_ext_advertise
hci_ext_advertise ==
    <<"ext_disable", "ext_params", "ext_data", "ext_enable", "sleep", "ext_disable",
      "ext_fake_data">>

\* BluetoothHCIAdapter._mgmt_advertise: MGMT commands 0x3E and 0x3F
mgmt_advertise == <<"add_advertising", "sleep", "remove_advertising">>

\* BluetoothHCIAdapter._advertise: what it runs in the adapter's mode
advertise_steps(mode) ==
    CASE mode = "hci"  -> hci_advertise
      [] mode = "ext"  -> hci_ext_advertise
      [] mode = "mgmt" -> mgmt_advertise

\* what call c runs: _advertise in the adapter's mode, or one MGMT command
call_steps(mode, c) == IF c = CmdCaller THEN <<"mgmt_command">> ELSE advertise_steps(mode)

\* whether call c sends its commands through send_mgmt_cmd
by_mgmt(mode, c) == c = CmdCaller \/ mode = "mgmt"

\* the commands that switch advertising on and off in the controller
EnableCmds == {"enable", "ext_enable", "add_advertising"}

DisableCmds == {"disable", "ext_disable", "remove_advertising"}

NoCall == [at |-> "idle", step |-> 0, err |-> ""]

\* an exception leaves call c: async with releases the _adv_lock of _advertise
advertise_raises(st, c, err) ==
    [bt  |-> [st.bt EXCEPT !.adv_lock = IF @ = c THEN 0 ELSE @,
                           !.calls[c] = [at |-> "raised", step |-> @.step, err |-> err]],
     log |-> [st.log EXCEPT !.last_end = IF c = CmdCaller THEN @ ELSE "raised"]]

\* the command of step k is written to the socket and its answer awaited
cmd_written(st, c, k) ==
    [bt  |-> [st.bt EXCEPT !.calls[c] = [at |-> "wait", step |-> k, err |-> ""]],
     log |-> [st.log EXCEPT
                !.written = Append(@, [by |-> c, cmd |-> call_steps(st.bt.mode, c)[k]]),
                !.wrote_closed = @ \/ (c # CmdCaller /\ ~st.bt.opened)]]

\* _send_hci_cmd up to its wait for the Command Complete
send_hci_cmd(st, c, k) ==
    IF ~st.bt.opened THEN advertise_raises(st, c, "AdapterError")
    ELSE IF st.bt.cmd_lock # 0
    THEN [st EXCEPT !.bt.calls[c] = [at |-> "cmd_lock", step |-> k, err |-> ""]]
    ELSE cmd_written([st EXCEPT !.bt.cmd_lock = c], c, k)

\* BleAdvBtHciManager.send_mgmt_cmd up to its wait for the Command Complete
send_mgmt_cmd(st, c, k) ==
    IF ~st.bt.mgmt_opened THEN advertise_raises(st, c, "AdapterError")
    ELSE IF st.bt.mgmt_cmd_lock # 0
    THEN [st EXCEPT !.bt.calls[c] = [at |-> "cmd_lock", step |-> k, err |-> ""]]
    ELSE cmd_written([st EXCEPT !.bt.mgmt_cmd_lock = c], c, k)

\* the command lock that call c holds is released
cmd_unlock(h, c) ==
    [h EXCEPT !.cmd_lock = IF @ = c THEN 0 ELSE @,
              !.mgmt_cmd_lock = IF @ = c THEN 0 ELSE @]

\* a variant of the timeout that leaves the command lock held
cmd_timeout_locked(st, c) ==
    advertise_raises([st EXCEPT !.log.timeouts = @ + 1], c, "TimeoutError")

\* wait_for of the Command Complete times out in _send_hci_cmd or
\* send_mgmt_cmd: TimeoutError leaves async with, which releases the lock
cmd_timeout(st, c) ==
    advertise_raises([bt |-> cmd_unlock(st.bt, c),
                      log |-> [st.log EXCEPT !.timeouts = @ + 1]], c, "TimeoutError")

\* call c goes on with its step k: the next command, the sleep, or its end,
\* which releases the _adv_lock of _advertise
advertise_step(st, c, k) ==
    LET steps == call_steps(st.bt.mode, c)
    IN  IF k > Len(steps)
        THEN [bt  |-> [st.bt EXCEPT !.adv_lock = IF @ = c THEN 0 ELSE @,
                                    !.calls[c] = [at |-> "done", step |-> k, err |-> ""]],
              log |-> [st.log EXCEPT !.last_end = IF c = CmdCaller THEN @ ELSE "completed"]]
        ELSE IF steps[k] = "sleep"
        THEN [bt  |-> [st.bt EXCEPT !.calls[c] = [at |-> "sleep", step |-> k, err |-> ""]],
              log |-> [st.log EXCEPT !.written = Append(@, [by |-> c, cmd |-> "sleep"])]]
        ELSE IF by_mgmt(st.bt.mode, c) THEN send_mgmt_cmd(st, c, k)
        ELSE send_hci_cmd(st, c, k)

\* a variant of the entry of _advertise without _adv_lock
advertise_enter_unlocked(st, c) ==
    advertise_step(st, c, 1)

\* _advertise, its async with self._adv_lock: the call runs on with the lock
\* or waits for it
advertise_enter(st, c) ==
    IF st.bt.adv_lock = 0 THEN advertise_step([st EXCEPT !.bt.adv_lock = c], c, 1)
    ELSE [st EXCEPT !.bt.calls[c] = [at |-> "adv_lock", step |-> 0, err |-> ""]]

\* the controller executes a command it answers with success
controller(adv_enabled, cmd, ret) ==
    IF ret # "success" THEN adv_enabled
    ELSE IF cmd \in EnableCmds THEN TRUE
    ELSE IF cmd \in DisableCmds THEN FALSE
    ELSE adv_enabled

BtNow == [bt |-> bt, log |-> btlog]

InitBt ==
    /\ \E mode \in AdvModes :
          bt = [NoBt EXCEPT !.opened = TRUE, !.mode = mode, !.mgmt_opened = TRUE,
                            !.calls = [c \in BtCallers |-> NoCall]]
    /\ btlog = NoBtLog
    /\ IdleBesideBt

\* _advertise(item) is called
BtAdvertise(c) ==
    /\ bt.calls[c].at = "idle"
    /\ \E r \in {advertise_enter(BtNow, c)} : bt' = r.bt /\ btlog' = r.log
    /\ UNCHANGED besideBt

\* a call that waited for _adv_lock gets it
BtAdvLocked(c) ==
    /\ bt.calls[c].at = "adv_lock"
    /\ bt.adv_lock = 0
    /\ \E r \in {advertise_step([BtNow EXCEPT !.bt.adv_lock = c], c, 1)} :
          bt' = r.bt /\ btlog' = r.log
    /\ UNCHANGED besideBt

\* send_mgmt_cmd(device_id, cmd_type, cmd_data) is called directly
BtSendMgmtCmd ==
    /\ bt.calls[CmdCaller].at = "idle"
    /\ \E r \in {advertise_step(BtNow, CmdCaller, 1)} : bt' = r.bt /\ btlog' = r.log
    /\ UNCHANGED besideBt

\* a call that waited for the command lock gets it and writes its command;
\* the socket of a manager or adapter closed meanwhile is None, the write
\* raises and the lock is released
BtCmdLocked(c) ==
    /\ bt.calls[c].at = "cmd_lock"
    /\ IF by_mgmt(bt.mode, c) THEN bt.mgmt_cmd_lock = 0 ELSE bt.cmd_lock = 0
    /\ \E r \in {IF by_mgmt(bt.mode, c)
                 THEN IF bt.mgmt_opened
                      THEN cmd_written([BtNow EXCEPT !.bt.mgmt_cmd_lock = c], c, bt.calls[c].step)
                      ELSE advertise_raises(BtNow, c, "AttributeError")
                 ELSE IF bt.opened
                      THEN cmd_written([BtNow EXCEPT !.bt.cmd_lock = c], c, bt.calls[c].step)
                      ELSE advertise_raises(BtNow, c, "AttributeError")} :
          bt' = r.bt /\ btlog' = r.log
    /\ UNCHANGED besideBt

\* the Command Complete of the command under way is received: the command
\* returns, the lock is released, _advertise goes on.  A controller that
\* advertises does not refuse to stop.
BtCmdComplete(c, ret) ==
    /\ bt.calls[c].at = "wait"
    /\ IF by_mgmt(bt.mode, c) THEN bt.mgmt_opened ELSE bt.opened
    /\ LET cmd == call_steps(bt.mode, c)[bt.calls[c].step]
       IN  /\ (cmd \in DisableCmds /\ bt.adv_enabled) => ret = "success"
           /\ \E r \in {advertise_step(
                           [BtNow EXCEPT !.bt = [cmd_unlock(bt, c) EXCEPT
                                                    !.adv_enabled = controller(@, cmd, ret)]],
                           c, bt.calls[c].step + 1)} :
                 bt' = r.bt /\ btlog' = r.log
    /\ UNCHANGED besideBt

\* no Command Complete within CMD_RTO or MGMT_CMD_RTO
BtCmdTimeout(c) ==
    /\ bt.calls[c].at = "wait"
    /\ \E r \in {cmd_timeout(BtNow, c)} : bt' = r.bt /\ btlog' = r.log
    /\ UNCHANGED besideBt

\* the sleep of the advertising duration is over
BtSleepDone(c) ==
    /\ bt.calls[c].at = "sleep"
    /\ \E r \in {advertise_step(BtNow, c, bt.calls[c].step + 1)} :
          bt' = r.bt /\ btlog' = r.log
    /\ UNCHANGED besideBt

\* _dequeue's wait_for of MAX_ADV_WAIT cancels a call that sleeps or waits
\* for _adv_lock
BtAdvCancelled(c) ==
    /\ bt.calls[c].at \in {"sleep", "adv_lock"}
    /\ \E r \in {advertise_raises(BtNow, c, "TimeoutError")} : bt' = r.bt /\ btlog' = r.log
    /\ UNCHANGED besideBt

\* BleAdvAdapter.async_final of the adapter
BtAdapterFinal ==
    /\ bt.opened
    /\ bt' = [bt EXCEPT !.opened = FALSE]
    /\ UNCHANGED <<btlog, besideBt>>

\* BleAdvBtHciManager.async_final: its adapters are closed, then the manager
BtManagerFinal ==
    /\ bt.mgmt_opened
    /\ bt' = [bt EXCEPT !.opened = FALSE, !.mgmt_opened = FALSE]
    /\ UNCHANGED <<btlog, besideBt>>

\* BleAdvBtHciManager.async_init after a closure
BtManagerInit ==
    /\ ~bt.mgmt_opened
    /\ btlog.inits < MaxMgrInits
    /\ bt' = [bt EXCEPT !.mgmt_opened = TRUE]
    /\ btlog' = [btlog EXCEPT !.inits = @ + 1]
    /\ UNCHANGED besideBt

NextBt ==
    \/ \E c \in AdvCallers : BtAdvertise(c)
    \/ \E c \in AdvCallers : BtAdvLocked(c)
    \/ BtSendMgmtCmd
    \/ \E c \in BtCallers : BtCmdLocked(c)
    \/ \E c \in BtCallers, ret \in RetCodes : BtCmdComplete(c, ret)
    \/ \E c \in BtCallers : BtCmdTimeout(c)
    \/ \E c \in AdvCallers : BtSleepDone(c)
    \/ \E c \in AdvCallers : BtAdvCancelled(c)
    \/ BtAdapterFinal
    \/ BtManagerFinal
    \/ BtManagerInit

SpecBt == InitBt /\ [][NextBt]_vars

(***************************************************************************)
(* ble_adv_split/adapters: the recovery of a BleAdvBtHciManager.  The      *)
(* manager was initialised with its adapters; a closure of the MGMT        *)
(* socket, an error of an adapter or a controller event asks for a         *)
(* refresh, and the _acquire_connection task closes everything, sleeps and *)
(* runs async_init until it returns without an exception.  What the socket *)
(* and the controller do to async_init is the environment's choice.        *)
(***************************************************************************)
\* refresh requests
MaxEvents == 3

\* attempts of _acquire_connection that the environment makes fail
MaxFails == 2

\* the controllers of the index list, in its order
HciNames == <<"hci0", "hci1">>

\* what asks for a refresh
RefreshEvents == {"mgmt_close", "hci_error", "ctl_event"}

\* what can happen to an adapter of the index list in async_init
AddOutcomes == {"ok", "info_raises", "socket_raises", "command_raises"}

Unregistered == [registered |-> FALSE, opened |-> FALSE, processing |-> FALSE]

\* BleAdvBtHciManager.async_final: _clean, then the management socket
mgr_async_final(m) ==
    [m EXCEPT !.adapters = [a \in DOMAIN @ |-> Unregistered],
              !.mgmt_opened = FALSE, !.mgmt_sock = FALSE]

\* a variant of _launch_refresh that creates a task at every request
launch_refresh_always(m) == [m EXCEPT !.reconnecting = TRUE, !.pc = "created"]

\* _launch_refresh: nothing while a recovery is under way, else the
\* _acquire_connection task is created
launch_refresh(m) ==
    IF m.reconnecting THEN m
    ELSE [m EXCEPT !.reconnecting = TRUE, !.pc = "created"]

\* the body of the loop of async_init for one controller of the index list:
\* the info command raises; or _add_adapter registers the adapter and its
\* async_init raises in open() before or after _opened is set, which the
\* except clause of the loop swallows; or the adapter is opened and its
\* _dequeue task created
add_adapter(m, a, outcome) ==
    CASE outcome = "info_raises" -> m
      [] outcome = "socket_raises" ->
            [m EXCEPT !.adapters[a] = [registered |-> TRUE, opened |-> FALSE,
                                       processing |-> FALSE]]
      [] outcome = "command_raises" ->
            [m EXCEPT !.adapters[a] = [registered |-> TRUE, opened |-> TRUE,
                                       processing |-> FALSE]]
      [] outcome = "ok" ->
            [m EXCEPT !.adapters[a] = [registered |-> TRUE, opened |-> TRUE,
                                       processing |-> TRUE]]

\* an exception leaves async_init in _acquire_connection: async_final, and
\* the loop sleeps again
attempt_failed(m) == [mgr_async_final(m) EXCEPT !.pc = "sleep", !.todo = <<>>]

InitMgr ==
    /\ mg = [NoMgr EXCEPT !.mgmt_opened = TRUE, !.mgmt_sock = TRUE,
                          !.adapters = [a \in Range(HciNames) |->
                                          [registered |-> TRUE, opened |-> TRUE,
                                           processing |-> TRUE]]]
    /\ mglog = [NoMgrLog EXCEPT !.discovered = Range(HciNames)]
    /\ IdleBesideMgr

\* _mgmt_close, _hci_adapter_error or _mgmt_recv of an event 0x03 to 0x06
MgrEvent(kind) ==
    /\ mglog.launches + mglog.ignored < MaxEvents
    /\ kind \in {"mgmt_close", "ctl_event"} => mg.mgmt_sock
    /\ kind = "hci_error" => \E a \in DOMAIN mg.adapters : mg.adapters[a].opened
    /\ mg' = launch_refresh(mg)
    /\ mglog' = IF mg.reconnecting THEN [mglog EXCEPT !.ignored = @ + 1]
                ELSE [mglog EXCEPT !.launches = @ + 1]
    /\ UNCHANGED besideMgr

\* the _acquire_connection task starts: async_final, then the sleep
MgrAcquire ==
    /\ mg.pc = "created"
    /\ mg' = [mgr_async_final(mg) EXCEPT !.pc = "sleep"]
    /\ UNCHANGED <<mglog, besideMgr>>

\* after the sleep async_init opens the management socket and starts its
\* receive loop, or an exception ends the attempt
MgrOpenMgmt(ok) ==
    /\ mg.pc = "sleep"
    /\ ~ok => mglog.fails < MaxFails
    /\ mg' = IF ok THEN [mg EXCEPT !.mgmt_sock = TRUE, !.mgmt_opened = TRUE, !.pc = "index"]
             ELSE attempt_failed(mg)
    /\ mglog' = [mglog EXCEPT !.fails = IF ok THEN @ ELSE @ + 1]
    /\ UNCHANGED besideMgr

\* the index list command is answered, or times out and ends the attempt
MgrIndexList(ok) ==
    /\ mg.pc = "index"
    /\ ok => mg.mgmt_opened
    /\ ~ok => mglog.fails < MaxFails
    /\ mg' = IF ok THEN [mg EXCEPT !.pc = "adapter", !.todo = HciNames]
             ELSE attempt_failed(mg)
    /\ mglog' = [mglog EXCEPT !.fails = IF ok THEN @ ELSE @ + 1,
                              !.discovered = IF ok THEN Range(HciNames) ELSE @]
    /\ UNCHANGED besideMgr

\* the next controller of the index list; after the last one async_init
\* returns and _acquire_connection ends
MgrAddAdapter(outcome) ==
    /\ mg.pc = "adapter"
    /\ mg.todo # <<>>
    /\ outcome # "info_raises" => mg.mgmt_opened
    /\ LET m == [add_adapter(mg, Head(mg.todo), outcome) EXCEPT !.todo = Tail(@)]
       IN  IF m.todo = <<>>
           THEN /\ mg' = [m EXCEPT !.reconnecting = FALSE, !.pc = "none"]
                /\ mglog' = [mglog EXCEPT !.attempts = @ + 1]
           ELSE /\ mg' = m
                /\ UNCHANGED mglog
    /\ UNCHANGED besideMgr

NextMgr ==
    \/ \E kind \in RefreshEvents : MgrEvent(kind)
    \/ MgrAcquire
    \/ \E ok \in BOOLEAN : MgrOpenMgmt(ok)
    \/ \E ok \in BOOLEAN : MgrIndexList(ok)
    \/ \E outcome \in AddOutcomes : MgrAddAdapter(outcome)

SpecMgr == InitMgr /\ [][NextMgr]_vars

\* the loop runs the _acquire_connection task: its sleep ends, the sockets
\* open or raise, the commands are answered or time out
SpecMgrLive ==
    /\ SpecMgr
    /\ WF_vars(MgrAcquire)
    /\ WF_vars(\E ok \in BOOLEAN : MgrOpenMgmt(ok))
    /\ WF_vars(\E ok \in BOOLEAN : MgrIndexList(ok))
    /\ WF_vars(\E outcome \in AddOutcomes : MgrAddAdapter(outcome))

(***************************************************************************)
(* The manager with its shutdown: the owner calls async_final() once, at   *)
(* any moment, also while an adapter awaits its _advertise or while the    *)
(* _acquire_connection task sleeps or is in async_init.                    *)
(***************************************************************************)
\* the _dequeue task of adapter a hands a chunk to _advertise
MgrAdvStart(a) ==
    /\ mg.adapters[a].opened /\ mg.adapters[a].processing
    /\ a \notin mg.advertising
    /\ mg' = [mg EXCEPT !.advertising = @ \cup {a}]
    /\ UNCHANGED <<mglog, besideMgr>>

\* _advertise of adapter a ends: it returns, or the adapter was closed under
\* it, its command raises AdapterError and _dequeue reports the error with
\* _on_error, which is _hci_adapter_error of the manager
MgrAdvEnd(a) ==
    /\ a \in mg.advertising
    /\ ~mg.adapters[a].opened => mglog.launches + mglog.ignored < MaxEvents
    /\ IF mg.adapters[a].opened
       THEN /\ mg' = [mg EXCEPT !.advertising = @ \ {a}]
            /\ UNCHANGED mglog
       ELSE /\ mg' = [launch_refresh(mg) EXCEPT !.advertising = @ \ {a}]
            /\ mglog' = IF mg.reconnecting THEN [mglog EXCEPT !.ignored = @ + 1]
                        ELSE [mglog EXCEPT !.launches = @ + 1]
    /\ UNCHANGED besideMgr

\* the owner calls BleAdvBtHciManager.async_final()
MgrShutdown ==
    /\ ~mglog.shut.done
    /\ mg' = mgr_async_final(mg)
    /\ mglog' = [mglog EXCEPT !.shut = [done |-> TRUE, launches |-> mglog.launches,
                                        attempts |-> mglog.attempts]]
    /\ UNCHANGED besideMgr

NextShutdown ==
    \/ NextMgr
    \/ \E a \in Range(HciNames) : MgrAdvStart(a)
    \/ \E a \in Range(HciNames) : MgrAdvEnd(a)
    \/ MgrShutdown

SpecShutdown == InitMgr /\ [][NextShutdown]_vars

(***************************************************************************)
(* The timer of a device (device.py): a received timer command schedules  *)
(* _async_timeout with Home Assistant's async_track_point_in_utc_time;    *)
(* apply_change and async_on_command cancel what _timer_cancel holds.     *)
(* The handlers have no suspension before they are through with the timer *)
(* and the entities, so each is one step.                                 *)
(***************************************************************************)
MaxClock == 3

MaxTimers == 3

\* ATTR_TIME of the timer commands received, in seconds
TimerDelays == {1, 2}

\* the entities of the device, by index; all of one base type
EntIds == {0, 1}

DEVICE_TYPE == "device"

ENT_TYPE == "light"

\* BleAdvEntAttr: the changed attributes one at a time, as the translators
\* give them
TimerCmds == [chg : {"cmd"}, cmd : {"timer"}, time : TimerDelays, base_type : {DEVICE_TYPE}, index : {0}]

OtherCmds ==
    [chg : {"cmd"}, cmd : {"pair", "toggle"}, on : {"False"}, base_type : {DEVICE_TYPE, ENT_TYPE}, index : EntIds]
    \cup [chg : {"on", "br"}, cmd : {""}, on : {"True", "False", "toggle"}, base_type : {DEVICE_TYPE, ENT_TYPE}, index : EntIds]

\* BleAdvEntity.change_bool
change_bool(cur, new) == IF new = "toggle" THEN ~cur ELSE new = "True"

\* BleAdvEntity.apply_attrs: is_on of the entity after the attributes
apply_attrs(is_on, ent_attr) ==
    LET a == IF ent_attr.chg = "on" THEN change_bool(is_on, ent_attr.on) ELSE is_on
    IN  IF ent_attr.chg = "cmd" /\ ent_attr.cmd = "toggle" THEN ~a ELSE a

\* BleAdvDevice._async_cmd_all
async_cmd_all(d, ent_attr) ==
    [d EXCEPT !.is_on = [e \in DOMAIN d.is_on |-> apply_attrs(d.is_on[e], ent_attr)]]

\* BleAdvDevice._async_cancel_timer, without the unsubscription
async_cancel_timer_kept(d) == [d EXCEPT !.timer_cancel = 0]

\* BleAdvDevice._async_cancel_timer: the callback of _timer_cancel is taken
\* from Home Assistant's (nothing happens for one that has fired)
async_cancel_timer(d) ==
    [d EXCEPT !.timer_cancel = 0,
              !.tracked = {t \in @ : t.id # d.timer_cancel}]

\* BleAdvDevice._async_on_device_command; id is the handle of a new timer
async_on_device_command(d, ent_attr, id) ==
    IF ent_attr.chg = "cmd"
    THEN IF ent_attr.cmd = "timer"
         THEN [d EXCEPT !.timer_cancel = id,
                        !.tracked = @ \cup {[id |-> id, expire |-> utcnow + ent_attr.time]}]
         ELSE d
    ELSE async_cmd_all(d, ent_attr)

\* the loop body of BleAdvDevice.async_on_command for one BleAdvEntAttr
on_command_attr(d, ent_attr, id) ==
    IF ent_attr.base_type = DEVICE_TYPE
    THEN async_on_device_command(d, ent_attr, id)
    ELSE [d EXCEPT !.is_on = [e \in DOMAIN d.is_on |->
            IF /\ e = ent_attr.index
               /\ \/ d.is_on[e]
                  \/ ent_attr.chg = "on" /\ change_bool(d.is_on[e], ent_attr.on)
                  \/ ent_attr.chg = "cmd" /\ ent_attr.cmd = "toggle"
            THEN apply_attrs(d.is_on[e], ent_attr)
            ELSE d.is_on[e]]]

\* the timers a step took from Home Assistant's before they fired
Untracked(d, e) == {t.id : t \in d.tracked} \ {t.id : t \in e.tracked}

InitTimer ==
    /\ IdleBesideTimer
    /\ \E on \in [EntIds -> BOOLEAN] : dv = [is_on |-> on, timer_cancel |-> 0, tracked |-> {}]
    /\ utcnow = 0
    /\ dvlog = NoDeviceLog

\* async_on_command with a timer command
TmTimerCommand(ent_attr) ==
    /\ dvlog.timers < MaxTimers
    /\ utcnow + ent_attr.time <= MaxClock
    /\ LET id == dvlog.timers + 1
           c  == async_cancel_timer(dv)
       IN  /\ dv' = on_command_attr(c, ent_attr, id)
           /\ dvlog' = [dvlog EXCEPT !.timers = id,
                                     !.cancelled = @ \cup Untracked(dv, c),
                                     !.last = [op |-> "timer", id |-> id]]
    /\ UNCHANGED <<utcnow, besideTimer>>

\* async_on_command with another command
TmOnCommand(ent_attr) ==
    /\ LET c == async_cancel_timer(dv)
       IN  /\ dv' = on_command_attr(c, ent_attr, 0)
           /\ dvlog' = [dvlog EXCEPT !.cancelled = @ \cup Untracked(dv, c),
                                     !.last = [op |-> "command", id |-> 0]]
    /\ UNCHANGED <<utcnow, besideTimer>>

\* a state change of entity e made in Home Assistant: _handle_state_change
\* sets the attribute and, as it changed, calls apply_change
TmApplyChange(e, on) ==
    /\ dv.is_on[e] # on
    /\ LET c == async_cancel_timer(dv)
       IN  /\ dv' = [c EXCEPT !.is_on[e] = on]
           /\ dvlog' = [dvlog EXCEPT !.cancelled = @ \cup Untracked(dv, c),
                                     !.last = [op |-> "change", id |-> 0]]
    /\ UNCHANGED <<utcnow, besideTimer>>

\* Home Assistant calls _async_timeout at the point in time
TmTimeout ==
    /\ \E t \in dv.tracked :
        /\ t.expire <= utcnow
        /\ dv' = [async_cmd_all(dv, [chg |-> "on", cmd |-> "", on |-> "False",
                                     base_type |-> "", index |-> 0])
                    EXCEPT !.tracked = @ \ {t}]
        /\ dvlog' = [dvlog EXCEPT !.fired = @ \cup {t.id},
                                  !.last = [op |-> "timeout", id |-> t.id]]
    /\ UNCHANGED <<utcnow, besideTimer>>

\* a second passes; a callback that is due is called before
TmTick ==
    /\ utcnow < MaxClock
    /\ \A t \in dv.tracked : t.expire > utcnow
    /\ utcnow' = utcnow + 1
    /\ dvlog' = [dvlog EXCEPT !.last = [op |-> "tick", id |-> 0]]
    /\ UNCHANGED <<dv, besideTimer>>

NextTimer ==
    \/ \E ent_attr \in TimerCmds : TmTimerCommand(ent_attr)
    \/ \E ent_attr \in OtherCmds : TmOnCommand(ent_attr)
    \/ \E e \in EntIds, on \in BOOLEAN : TmApplyChange(e, on)
    \/ TmTimeout
    \/ TmTick

\* Home Assistant's loop calls a callback that is due and time passes
SpecTimer ==
    InitTimer /\ [][NextTimer]_vars /\ WF_vars(TmTimeout) /\ WF_vars(TmTick)

\* the lists of two commands async_on_command is called with
TimerLists == [1..2 -> TimerCmds] \cup [1..2 -> {c \in OtherCmds : c.chg = "cmd"}]

\* the timer commands among ent_attrs
RECURSIVE NbTimers(_)
NbTimers(ent_attrs) ==
    IF ent_attrs = <<>> THEN 0
    ELSE (IF Head(ent_attrs).cmd = "timer" THEN 1 ELSE 0) + NbTimers(Tail(ent_attrs))

\* the loop of BleAdvDevice.async_on_command over ent_attrs; id is the
\* handle of the next new timer
RECURSIVE async_on_command_loop(_, _, _)
async_on_command_loop(d, ent_attrs, id) ==
    IF ent_attrs = <<>> THEN d
    ELSE async_on_command_loop(on_command_attr(d, Head(ent_attrs), id), Tail(ent_attrs),
                               id + NbTimers(<<Head(ent_attrs)>>))

\* BleAdvDevice.async_on_command(ent_attrs): the pending timer is cancelled
\* once, then every BleAdvEntAttr of the list is handled
TmOnCommandList(ent_attrs) ==
    /\ dvlog.timers + NbTimers(ent_attrs) <= MaxTimers
    /\ \A i \in DOMAIN ent_attrs :
          ent_attrs[i].cmd = "timer" => utcnow + ent_attrs[i].time <= MaxClock
    /\ LET c == async_cancel_timer(dv)
       IN  /\ dv' = async_on_command_loop(c, ent_attrs, dvlog.timers + 1)
           /\ dvlog' = [dvlog EXCEPT
                  !.timers = @ + NbTimers(ent_attrs),
                  !.cancelled = @ \cup Untracked(dv, c),
                  !.last = IF NbTimers(ent_attrs) > 0
                           THEN [op |-> "timer", id |-> dvlog.timers + NbTimers(ent_attrs)]
                           ELSE [op |-> "command", id |-> 0]]
    /\ UNCHANGED <<utcnow, besideTimer>>

NextTimerList ==
    \/ NextTimer
    \/ \E ent_attrs \in TimerLists : TmOnCommandList(ent_attrs)

\* the device called with lists of one and of two commands
SpecTimerList ==
    InitTimer /\ [][NextTimerList]_vars /\ WF_vars(TmTimeout) /\ WF_vars(TmTick)

(***************************************************************************)
(* A recorded advertisement decoded, translated and re-encoded, step by    *)
(* step as tests/codecs/__init__.py does (test_decode_reencode) and as a   *)
(* device of the codec does on reception and on emission.                  *)
(***************************************************************************)
\* 02.01.1A.11.FF.F9.08.49.89.E4.E1.BB.27.77.8C.12.41.C9.21.1B.20
ZhijiaV0PairRaw ==
    <<2, 1, 26, 17, 255, 249, 8, 73, 137, 228, 225, 187, 39, 119, 140, 18, 65, 201, 33, 27, 32>>

\* what is added to one byte of the recorded advertisement to get a damaged one
VectorDamage == {1, 128}

\* the recorded advertisement, the same with one byte damaged, and the
\* advertisements the codec itself emits
VectorRaws ==
    {ZhijiaV0PairRaw}
    \cup {[ZhijiaV0PairRaw EXCEPT ![i] = (@ + m) % 256] :
            i \in 1..Len(ZhijiaV0PairRaw), m \in VectorDamage}
    \cup {to_raw(a) : a \in RegAdvs("zhijia_v0")}

\* tx_step of the codec at re-encoding: its own, or the 0 the tests set
VectorTxSteps == {0, CODECS("zhijia_v0").tx_step}

InitVector ==
    /\ IdleBesideVector
    /\ vraw \in VectorRaws
    /\ vt = NoVector

\* adv = BleAdvAdvertisement.FromRaw(raw)
VecFromRaw ==
    /\ ~vt.parsed
    /\ vt' = [vt EXCEPT !.adv = FromRaw(vraw), !.parsed = TRUE]
    /\ UNCHANGED <<vraw, besideVector>>

\* enc_cmd, conf = codec.decode_adv(adv)
VecDecode ==
    /\ vt.parsed
    /\ vt.dec.st = ""
    /\ vt' = [vt EXCEPT !.dec = decode_adv(CODECS("zhijia_v0"), vt.adv)]
    /\ UNCHANGED <<vraw, besideVector>>

\* ent_attrs = codec.enc_to_ent(enc_cmd)
VecEncToEnt ==
    /\ vt.dec.st = "ok"
    /\ vt.ents.st = ""
    /\ vt' = [vt EXCEPT !.ents = BleAdvCodec_enc_to_ent(translators("zhijia_v0"), vt.dec.enc)]
    /\ UNCHANGED <<vraw, besideVector>>

\* enc_cmds = codec.ent_to_enc(ent_attrs[0])
VecEntToEnc ==
    /\ vt.ents.st = "ok"
    /\ Len(vt.ents.ents) > 0
    /\ vt.encs.st = ""
    /\ vt' = [vt EXCEPT !.encs = BleAdvCodec_ent_to_enc(translators("zhijia_v0"), vt.ents.ents[1])]
    /\ UNCHANGED <<vraw, besideVector>>

\* codec.encode_advs(enc_cmds[0], conf) with the decoded Config
VecEncode(tx_step) ==
    /\ vt.encs.st = "ok"
    /\ Len(vt.encs.cmds) > 0
    /\ vt.readv.st = ""
    /\ LET r == encode_advs([CODECS("zhijia_v0") EXCEPT !.tx_step = tx_step],
                            vt.encs.cmds[1], vt.dec.conf, 0)
       IN  vt' = [vt EXCEPT !.tx_step = tx_step,
                            !.readv = [st |-> IF r.raised THEN "raise" ELSE "ok",
                                       advs |-> r.advs, conf |-> r.conf]]
    /\ UNCHANGED <<vraw, besideVector>>

NextVector ==
    \/ VecFromRaw
    \/ VecDecode
    \/ VecEncToEnt
    \/ VecEntToEnc
    \/ \E tx_step \in VectorTxSteps : VecEncode(tx_step)

SpecVector == InitVector /\ [][NextVector]_vars

(***************************************************************************)
(* The adapter with async_final and a new async_init: the adapter          *)
(* specification above with its _dequeue task and its _unlock_queue tasks, *)
(* and what becomes of them when async_final clears the queues without     *)
(* cancelling them: fin.old is the _dequeue task and fin.left_unlock the   *)
(* _unlock_queue tasks started before async_final.                         *)
(***************************************************************************)
MaxFinals == 1

\* the variables beside those of the adapter and of its finalisation
finBeside ==
    <<baseVars, regVars, gateVars, shareVars, pureVars, windowVars, sockVars, btVars, mgrVars,
      timerVars, vectorVars, cmdVars>>

\* BleAdvAdapter.async_final: the body under the lock (close() follows)
adapter_async_final(a) ==
    [a EXCEPT !.processing = FALSE, !.qlen = 0, !.cur_ind = -1, !.queues = <<>>,
              !.queues_index = <<>>, !.locked_tasks = <<>>, !.add_event = TRUE]

\* _dequeue at the top of its loop: it goes on while _processing
dequeue_loops(a) ==
    IF a.processing THEN [NoDequeue EXCEPT !.pc = "wait"] ELSE NoDequeue

\* self._locked_tasks[qind] = ... : Python's list assignment raises IndexError
\* outside -len..len-1 and counts a negative index from the end
ListIndex(qind, len) ==
    IF qind >= 0 /\ qind < len THEN qind + 1
    ELSE IF qind < 0 /\ -qind <= len THEN len + qind + 1
    ELSE 0

InitFinal ==
    /\ hci = [NoAdapter EXCEPT !.processing = TRUE]
    /\ dq = [NoDequeue EXCEPT !.pc = "wait"]
    /\ alog = NoLog
    /\ drn = NoDrain
    /\ IdleBesideAdapter

\* the steps of the adapter specification
FinAdapterStep ==
    \/ \E queue_id \in AdapterQueues, qi \in AdapterItems : Enqueue(queue_id, qi)
    \/ DequeueWake
    \/ AdvertiseReturns
    \/ \E qind \in 0..(hci.qlen - 1) : UnlockQueue(qind)

\* await adapter.async_final(): the lock is free, nothing suspends
FinAsyncFinal ==
    /\ hci.processing
    /\ fin.finals < MaxFinals
    /\ hci' = adapter_async_final(hci)
    /\ dq' = NoDequeue
    /\ fin' = [fin EXCEPT !.finals = @ + 1,
                          !.cleared = LET a == adapter_async_final(hci)
                                      IN  /\ a.queues = <<>> /\ a.queues_index = <<>>
                                          /\ a.locked_tasks = <<>> /\ a.qlen = 0,
                          !.enq_before = Len(alog.enq),
                          !.left_unlock = {q - 1 : q \in {p \in DOMAIN hci.locked_tasks :
                                                              hci.locked_tasks[p]}},
                          !.old = dq]
    /\ UNCHANGED <<alog, drn, finBeside>>

\* await adapter.async_init() after async_final: open(), a new _dequeue task
FinAsyncInit ==
    /\ ~hci.processing
    /\ fin.inits < fin.finals
    /\ hci' = [hci EXCEPT !.processing = TRUE]
    /\ dq' = [NoDequeue EXCEPT !.pc = "wait"]
    /\ fin' = [fin EXCEPT !.inits = @ + 1]
    /\ UNCHANGED <<alog, drn, finBeside>>

\* the _dequeue task of before async_final is woken by the event: it scans
\* what queues there are and goes on while _processing
FinOldWake ==
    /\ fin.old.pc = "wait"
    /\ hci.add_event
    /\ \E r \in {dequeue_round(hci)} :
           /\ hci' = r.a
           /\ fin' = [fin EXCEPT !.old = IF r.task.pc = "advertise" THEN r.task
                                         ELSE dequeue_loops(hci)]
    /\ UNCHANGED <<dq, alog, drn, finBeside>>

\* the _advertise that was under way at async_final returns or raises (the
\* adapter was closed under it); after a return _lock_queue_for(_cur_ind,
\* lock_delay) assigns to the cleared list
FinOldAdvertiseEnds(raises) ==
    /\ fin.old.pc = "advertise"
    /\ LET ix == ListIndex(hci.cur_ind, Len(hci.locked_tasks))
           index_error == ~raises /\ fin.old.lock_delay # 0 /\ ix = 0
       IN  /\ hci' = IF raises \/ index_error THEN hci
                     ELSE [(IF fin.old.lock_delay # 0
                            THEN [hci EXCEPT !.locked_tasks[ix] = TRUE] ELSE hci)
                              EXCEPT !.add_event = TRUE]
           /\ alog' = IF raises THEN alog
                      ELSE [alog EXCEPT !.advertised = Append(@, fin.old.item)]
           /\ fin' = [fin EXCEPT
                        !.old = dequeue_loops(hci),
                        !.errors = @ \cup (IF raises \/ index_error
                                           THEN {"on_error: Exception in Adapter Dequeue"}
                                           ELSE {})]
    /\ UNCHANGED <<dq, drn, finBeside>>

\* an _unlock_queue(qind, delay) of before async_final wakes from its sleep
\* and assigns to _locked_tasks[qind]
FinLeftUnlock(qind) ==
    /\ qind \in fin.left_unlock
    /\ IF qind + 1 \in DOMAIN hci.locked_tasks
       THEN /\ hci' = [hci EXCEPT !.locked_tasks[qind + 1] = FALSE, !.add_event = TRUE]
            /\ fin' = [fin EXCEPT !.left_unlock = @ \ {qind}]
       ELSE /\ hci' = hci
            /\ fin' = [fin EXCEPT !.left_unlock = @ \ {qind},
                                  !.errors = @ \cup {"IndexError in _unlock_queue"}]
    /\ UNCHANGED <<dq, alog, drn, finBeside>>

NextFinal ==
    \/ FinAdapterStep
    \/ FinAsyncFinal
    \/ FinAsyncInit
    \/ FinOldWake
    \/ \E raises \in BOOLEAN : FinOldAdvertiseEnds(raises)
    \/ \E qind \in {0, 1} : FinLeftUnlock(qind)

SpecFinal == InitFinal /\ [][NextFinal]_vars

(***************************************************************************)
(* The commands of an adapter on its HCI socket (_send_hci_cmd, _recv) and *)
(* of the manager on the MGMT socket (send_mgmt_cmd, _mgmt_recv).  The     *)
(* controller answers each command with one Command Complete event, at any *)
(* later moment while the socket is open, also after the wait of the       *)
(* command timed out.  cur, ret_from and returned record which command     *)
(* each result came from.                                                  *)
(***************************************************************************)
\* the commands sent on the two sockets together
MaxCmds == 3

OGF_LE_CTL == 8

OCF_LE_SET_ADVERTISING_DATA == 8

OCF_LE_SET_ADVERTISE_ENABLE == 10

HCI_SUCCESS == 0

HCI_DISALLOWED == 12

MGMT_ADD_ADVERTISING == 62

MGMT_REMOVE_ADVERTISING == 63

Channels == {"hci", "mgmt"}

\* op_code = cmd_type + (OGF_LE_CTL << 10)
HciOpCode(cmd_type) == cmd_type + OGF_LE_CTL * 1024

\* the commands sent: on the HCI socket of the adapter of controller 0, on
\* the MGMT socket for the controllers 0 and 1
CmdsOf(ch) ==
    IF ch = "hci"
    THEN {[dev |-> 0, op |-> HciOpCode(c)] :
              c \in {OCF_LE_SET_ADVERTISE_ENABLE, OCF_LE_SET_ADVERTISING_DATA}}
    ELSE {[dev |-> d, op |-> o] :
              d \in {0, 1}, o \in {MGMT_ADD_ADVERTISING, MGMT_REMOVE_ADVERTISING}}

\* the return codes of the Command Complete events
CmdRetCodes == {HCI_SUCCESS, HCI_DISALLOWED}

\* BluetoothHCIAdapter._recv on a Command Complete event ev
hci_recv(h, ev) ==
    IF ev.op = h.on_going.op
    THEN [h EXCEPT !.ret_code = ev.code, !.ret_from = ev.no, !.event = TRUE]
    ELSE h

\* BleAdvBtHciManager._mgmt_recv on a Command Complete event ev
mgmt_recv(h, ev) ==
    IF ev.dev = h.on_going.dev /\ ev.op = h.on_going.op
    THEN [h EXCEPT !.ret_code = ev.code, !.ret_from = ev.no, !.event = TRUE]
    ELSE h

\* _send_hci_cmd and send_mgmt_cmd up to their wait: the event is cleared,
\* the command noted as on going, the result reset, the command sent
send_cmd(h, cmd, code) ==
    [h EXCEPT !.event = FALSE, !.on_going = cmd, !.ret_code = 0, !.ret_from = 0,
              !.cur = h.sent + 1, !.sent = @ + 1, !.pc = "wait",
              !.wire = @ \cup {[no |-> h.sent + 1, dev |-> cmd.dev, op |-> cmd.op,
                                code |-> code]}]

InitCmd ==
    /\ hc = [ch \in Channels |-> [NoChannel EXCEPT !.opened = TRUE]]
    /\ IdleBesideCmd

\* a command is sent under the command lock; the controller will answer it
\* with the return code code
CmdSend(ch, cmd, code) ==
    /\ hc[ch].opened
    /\ hc[ch].pc = "idle"
    /\ hc["hci"].sent + hc["mgmt"].sent < MaxCmds
    /\ hc' = [hc EXCEPT ![ch] = send_cmd(@, cmd, code)]
    /\ UNCHANGED besideCmd

\* the receiving task hands a Command Complete event to _recv / _mgmt_recv
CmdRecv(ch, ev) ==
    /\ hc[ch].opened
    /\ ev \in hc[ch].wire
    /\ hc' = [hc EXCEPT ![ch] = [(IF ch = "hci" THEN hci_recv(@, ev) ELSE mgmt_recv(@, ev))
                                     EXCEPT !.wire = @ \ {ev}]]
    /\ UNCHANGED besideCmd

\* the wait ends with the event set: the command returns _ret_code, _ret_data
CmdReturns(ch) ==
    /\ hc[ch].pc = "wait"
    /\ hc[ch].event
    /\ hc' = [hc EXCEPT ![ch] = [@ EXCEPT !.pc = "idle",
                 !.returned = @ \cup {[no |-> hc[ch].cur, from |-> hc[ch].ret_from,
                                       code |-> hc[ch].ret_code]}]]
    /\ UNCHANGED besideCmd

\* the wait times out (CMD_RTO, MGMT_CMD_RTO) and the command raises.  The
\* caller reports the error: the socket stays open when the refresh request
\* is ignored, a recovery being under way, or when the command was one of
\* async_init for one controller; else the recovery closes the socket.
CmdTimeout(ch, stays) ==
    /\ hc[ch].pc = "wait"
    /\ ~hc[ch].event
    /\ hc' = [hc EXCEPT ![ch] = [@ EXCEPT !.pc = "idle", !.timeouts = @ + 1,
                                          !.opened = stays]]
    /\ UNCHANGED besideCmd

\* the recovery opens a new socket: what was under way on the closed one is
\* not received on it; the adapter is a new object, the manager is not
CmdReopen(ch) ==
    /\ ~hc[ch].opened
    /\ hc' = [hc EXCEPT ![ch] =
                 IF ch = "hci"
                 THEN [NoChannel EXCEPT !.opened = TRUE, !.sent = hc[ch].sent,
                                        !.returned = hc[ch].returned,
                                        !.timeouts = hc[ch].timeouts]
                 ELSE [@ EXCEPT !.opened = TRUE, !.wire = {}]]
    /\ UNCHANGED besideCmd

NextCmd ==
    \/ \E ch \in Channels : \E cmd \in CmdsOf(ch) : \E code \in CmdRetCodes : CmdSend(ch, cmd, code)
    \/ \E ch \in Channels : \E ev \in hc[ch].wire : CmdRecv(ch, ev)
    \/ \E ch \in Channels : CmdReturns(ch)
    \/ \E ch \in Channels : \E stays \in BOOLEAN : CmdTimeout(ch, stays)
    \/ \E ch \in Channels : CmdReopen(ch)

SpecCmd == InitCmd /\ [][NextCmd]_vars

(***************************************************************************)
(* Properties of the codec-level specification.                            *)
(***************************************************************************)
\* the first advertisement of the last encode_advs call has been decoded
FirstDecoded == last.op = "encode" /\ ~last.raised /\ rx.i = 1

\* the part of a Config id the codec's buffer carries: FanLampEncoderV1 puts
\* the index where bits 8..11 of the id would be
WireId(c, id) == IF c.cls = "FanLampEncoderV1" THEN id - (Shr(id, 8) % 16) * 256 ELSE id

\* the part of a Config index the codec's buffer carries
WireIndex(c, index) ==
    CASE c.cls = "FanLampEncoderV1" -> index % 16
      [] c.cls = "FanLampEncoderV1b" -> 0
      [] OTHER -> index

\* the part of tx_count the codec's buffer carries: FanLampEncoderV1b carries none
WireTxCount(c, tx_count) == IF c.cls = "FanLampEncoderV1b" THEN 0 ELSE tx_count

DeclaredDupes == {"zhijia_v2", "zhijia_v2_fl"}

\* C2, as stated: an advertisement two different codecs accept is one of two
\* codecs declared as duplicates; every other codec rejects it.
C2_NonAmbiguity ==
    \A o1, o2 \in CodecIds :
        (o1 # o2 /\ rx.res[o1].st = "ok" /\ rx.res[o2].st = "ok")
            => {o1, o2} \subseteq DeclaredDupes

\* C3, as stated: a call in which tx_count + tx_step reached tx_max (tx_count
\* wrapped) increments app_restart_count modulo 255.
C3_CountsWraps ==
    (last.op = "encode" /\ last.pre.tx_count + CODECS(codec).tx_step >= CODECS(codec).tx_max)
        => conf.app_restart_count = (last.pre.app_restart_count + 1) % 255

\* C3, amended: each call sets tx_count to (tx_count + tx_step) mod tx_max,
\* which stays in [0, tx_max), and increments app_restart_count modulo 255
\* exactly when the new tx_count is 0, also when building the buffers raises.
C3_TxCount ==
    /\ conf.tx_count \in 0..(CODECS(codec).tx_max - 1)
    /\ last.op = "encode" =>
        /\ conf.tx_count = (last.pre.tx_count + CODECS(codec).tx_step) % CODECS(codec).tx_max
        /\ conf.app_restart_count =
              IF conf.tx_count = 0 THEN (last.pre.app_restart_count + 1) % 255
              ELSE last.pre.app_restart_count

C3_Witness ==
    /\ last.op = "encode"
    /\ codec = "zhijia_v1"
    /\ last.pre.tx_count = 124
    /\ conf.tx_count = 1
    /\ conf.app_restart_count = last.pre.app_restart_count

\* C4: a call with seed 0 on a codec with seed_max > 0 leaves the seed in
\* [1, seed_max]; with seed_max 0 the seed stays 0; a non-zero seed is kept;
\* so randint is called at most once more than the caller reset the seed.
C4_SeedLifecycle ==
    /\ draws <= resets + 1
    /\ last.op = "encode" =>
          IF last.pre.seed # 0 THEN conf.seed = last.pre.seed
          ELSE IF CODECS(codec).seed_max > 0 THEN conf.seed \in 1..CODECS(codec).seed_max
          ELSE conf.seed = 0

C4_Witness ==
    /\ last.op = "encode"
    /\ draws = 2
    /\ resets = 1
    /\ conf.seed = CODECS(codec).seed_max

\* C6, as stated: decode_adv never raises, whatever the advertisement.
C6_NeverRaises == \A o \in CodecIds : rx.res[o].st # "raise"

(***************************************************************************)
(* Properties of the translator specification.                             *)
(***************************************************************************)
\* the attributes the matcher of tr constrains by min or max
Bounded == {tr.ent.mins[i][1] : i \in 1..Len(tr.ent.mins)}
               \cup {tr.ent.maxs[i][1] : i \in 1..Len(tr.ent.maxs)}

Less(a, b) == ~float_ge(a, b)

\* round(a) of Python: the nearest integer, the even one of two equally near
Round(a) ==
    LET lo == a.n \div a.d
        twice == 2 * (a.n % a.d)
    IN  IF twice < a.d THEN lo
        ELSE IF twice > a.d THEN lo + 1
        ELSE IF lo % 2 = 0 THEN lo ELSE lo + 1

\* the copies of tr whose attribute the entity attributes hold
CopiesAtHand == {i \in 1..Len(tr.copies) : tr.copies[i].attr_ent \in DOMAIN ent.attrs}

Scaled(i) == float_mul(tr.copies[i].factor, ent.attrs[tr.copies[i].attr_ent])

\* C8, as stated: ent_to_enc writes round(factor * value), the nearest integer,
\* for each copy.
C8_CopyRounds ==
    enc.st = "ok" =>
        \A i \in CopiesAtHand : enc.cmd[tr.copies[i].attr_enc] = Round(Scaled(i))

\* C8, amended: ent_to_enc writes int(factor * value) for each copy: the scaled
\* value without its fraction, that is rounded toward zero; a missing
\* attribute counts as 0.
C8_CopyTruncates ==
    enc.st = "ok" =>
        \A i \in 1..Len(tr.copies) :
            LET k == enc.cmd[tr.copies[i].attr_enc]
            IN  IF i \notin CopiesAtHand THEN k = 0
                ELSE IF float_ge(Scaled(i), Num(0, 1))
                     THEN float_ge(Scaled(i), Num(k, 1)) /\ Less(Scaled(i), Num(k + 1, 1))
                     ELSE float_ge(Num(k, 1), Scaled(i)) /\ Less(Num(k - 1, 1), Scaled(i))

C8_Witness ==
    /\ enc.st = "ok"
    /\ tr = TR_TEST
    /\ dict_get(ent.attrs, "br", None) = Num(1, 8)
    /\ enc.cmd.arg0 = 31
    /\ Round(Num(255, 8)) = 32

\* |a - b| of two numbers
Dist(a, b) == Num(Abs(a.n * b.d - b.n * a.d), a.d * b.d)

\* C9: for each copy, the value enc_to_ent gives back for what ent_to_enc
\* stored is less than one quantization step 1/factor away from the value.
C9_ScaleLaw ==
    back.st = "ok" =>
        \A i \in CopiesAtHand :
            Less(Dist(ent.attrs[tr.copies[i].attr_ent], back.ent.attrs[tr.copies[i].attr_ent]),
                 float_inv(tr.copies[i].factor))

C9_Witness ==
    /\ back.st = "ok"
    /\ tr = TR_TEST
    /\ dict_get(ent.attrs, "br", None) = Num(1, 8)
    /\ back.ent.attrs["br"] = Num(31, 255)

\* a split copy to two destinations is at work on a value v with
\* 0 <= v and factor * v < modulo^2
SplitInRange ==
    /\ back.st = "ok"
    /\ tr.scopy.set
    /\ Len(tr.scopy.dests) = 2
    /\ float_ge(ent.attrs[tr.scopy.attr_ent], Num(0, 1))
    /\ Less(float_mul(tr.scopy.factor, ent.attrs[tr.scopy.attr_ent]),
            Num(tr.scopy.modulo * tr.scopy.modulo, 1))

\* C10, as stated: enc_to_ent(ent_to_enc(v)) gives back v for every v in
\* [0, modulo^2 / factor).
C10_SplitRoundTrip ==
    SplitInRange => back.ent.attrs[tr.scopy.attr_ent] = ent.attrs[tr.scopy.attr_ent]

\* C10, amended: for v in [0, modulo^2 / factor) the destinations hold the two
\* digits in base modulo, lowest first, of the integer part k of factor * v,
\* and enc_to_ent gives back k / factor, which is v exactly when factor * v
\* is an integer.
C10_SplitDigits ==
    SplitInRange =>
        LET v  == ent.attrs[tr.scopy.attr_ent]
            d0 == enc.cmd[tr.scopy.dests[1]]
            d1 == enc.cmd[tr.scopy.dests[2]]
            k  == d0 + tr.scopy.modulo * d1
            fv == float_mul(tr.scopy.factor, v)
        IN  /\ d0 \in 0..(tr.scopy.modulo - 1)
            /\ d1 \in 0..(tr.scopy.modulo - 1)
            /\ float_ge(fv, Num(k, 1)) /\ Less(fv, Num(k + 1, 1))
            /\ back.ent.attrs[tr.scopy.attr_ent] = float_mul(float_inv(tr.scopy.factor), Num(k, 1))
            /\ (back.ent.attrs[tr.scopy.attr_ent] = v) <=> (fv.d = 1)

C10_Witness ==
    /\ SplitInRange
    /\ tr = TR_ZM_TIMER
    /\ ent.attrs["s"] = Num(90, 1)
    /\ enc.cmd.arg0 = 1
    /\ enc.cmd.arg1 = 0
    /\ back.ent.attrs["s"] = Num(60, 1)

(***************************************************************************)
(* Properties of the coordinator specification.                            *)
(***************************************************************************)
\* the counters and seed of a kept Config are those decode_adv read
ReadBack(recv) ==
    /\ recv.conf.tx_count = recv.read.tx_count
    /\ recv.conf.app_restart_count = recv.read.app_restart_count
    /\ recv.conf.seed = recv.read.seed

\* a device's Config after that many apply_cmd calls, each one encode_advs
\* (both devices' codecs step tx_count by 1)
SentOncePerApply(d) ==
    LET c    == CODECS(Device(d).codec_id)
        cfg0 == Device(d).config
        sum  == cfg0.tx_count + applies[d] * c.tx_step
    IN  /\ config[d].id = cfg0.id /\ config[d].index = cfg0.index
        /\ config[d].tx_count = sum % c.tx_max
        /\ config[d].app_restart_count = (cfg0.app_restart_count + sum \div c.tx_max) % 255
        /\ applies[d] = 0 => config[d].seed = cfg0.seed
        /\ applies[d] > 0 => IF c.seed_max = 0 THEN config[d].seed = 0
                             ELSE config[d].seed \in 1..c.seed_max

\* every apply_cmd of a device handed one queue item to each of its adapters
OneItemPerAdapter(a) ==
    /\ Len(queue[a]) = (IF a \in Device("d1").adapter_ids THEN applies["d1"] ELSE 0)
                       + (IF a \in Device("d2").adapter_ids THEN applies["d2"] ELSE 0)
    /\ \A i \in DOMAIN queue[a] : a \in Device(queue[a][i].queue_id).adapter_ids

\* C5 (as stated): tx_count and seed of a Config change once per send, one
\* apply_cmd being one encode_advs whatever the number of adapters, and no
\* receive-side operation (decode_raw, handle_raw_adv, for any codec) changes
\* tx_count, app_restart_count or seed of any Config: a kept Config holds
\* what decode_adv read.
C5_ReceiveOnlyReads ==
    /\ \A d \in DeviceIds : SentOncePerApply(d)
    /\ \A i \in DOMAIN items : ReadBack(items[i])

\* C5 (amended): a device's Config changes by one encode_advs per apply_cmd,
\* whatever the number of adapters, each adapter getting one queue item, and
\* by no receive; the Config decoded from a received advertisement is kept
\* as read, except for a multi-advertisement codec, where handle_raw_adv
\* re-encodes with it and so advances it by one encode_advs step.
C5_SendCountsOnce ==
    /\ \A d \in DeviceIds : SentOncePerApply(d)
    /\ \A a \in Adapters : OneItemPerAdapter(a)
    /\ \A i \in DOMAIN items :
          LET c == CODECS(items[i].codec_id)
          IN  items[i].conf = IF c.multi_advs THEN encode_advs_conf(c, items[i].read, 0)
                              ELSE items[i].read

\* the device with two adapters has sent once, and an advertisement of the
\* multi-advertisement codec has been received and published to it
C5_Witness ==
    /\ applies["d1"] = 1
    /\ config["d1"].tx_count = 1
    /\ Len(queue["hci0"]) = 1 /\ Len(queue["hci1"]) = 1
    /\ \E i \in DOMAIN items :
          /\ CODECS(items[i].codec_id).multi_advs
          /\ "d1" \in items[i].pub_devices
          /\ items[i].read.tx_count = 0
          /\ items[i].conf.tx_count = 1

(***************************************************************************)
(* Properties of the receiving specification.                              *)
(***************************************************************************)
\* the fields an EncoderMatcher constrains with eq, and the value it asks for
EqFields(m) == {m.eqs[i][1] : i \in 1..Len(m.eqs)}

EqVal(m, f) == m.eqs[CHOOSE i \in 1..Len(m.eqs) : m.eqs[i][1] = f][2]

\* two EncoderMatchers that differ only by the value of an eq on a field both constrain
DiffersByEq(m1, m2) ==
    /\ m1.cmd = m2.cmd
    /\ m1.mins = m2.mins
    /\ m1.maxs = m2.maxs
    /\ EqFields(m1) = EqFields(m2)
    /\ \E f \in EqFields(m1) : EqVal(m1, f) # EqVal(m2, f)

\* the entries of the codec's table that were built
BuiltEntries == {i \in 1..Len(translators(rcodec)) : translators(rcodec)[i] # AttributeError}

\* C11: in the table of a registered codec, two translators whose
\* EncoderMatchers differ only by an eq constraint on a shared field never
\* both match the same decoded command.
C11_MatcherExclusivity ==
    rmatch # <<>> =>
        \A i, j \in {k \in BuiltEntries : rmatch[k]} :
            ~DiffersByEq(translators(rcodec)[i].enc, translators(rcodec)[j].enc)

\* a command was matched against the table, and it matches one translator
\* of a pair that differs only by an eq constraint
C11_Witness ==
    /\ rmatch # <<>>
    /\ \E i \in {k \in BuiltEntries : rmatch[k]}, j \in {k \in BuiltEntries : ~rmatch[k]} :
           DiffersByEq(translators(rcodec)[i].enc, translators(rcodec)[j].enc)

\* C12: every command decode_adv returns is translated by enc_to_ent into
\* exactly one BleAdvEntAttr.
C12_OneEntAttr == rents.st # "" => (rents.st = "ok" /\ Len(rents.ents) = 1)

\* a translator of the codec's table that matches the decoded command and is
\* enabled in both directions
BothWays ==
    \E i \in BuiltEntries :
        /\ Trans_matches_enc(translators(rcodec)[i], rdec.enc)
        /\ translators(rcodec)[i].direct

\* C13: for a decoded command whose matching translator is enabled in both
\* directions, ent_to_enc of the first result of enc_to_ent returns exactly
\* that command, and encoding it with the decoded Config gives back the
\* advertisement that was decoded.
C13_TranslatorRoundTrip ==
    /\ (rencs.st # "" /\ BothWays) => (rencs.st = "ok" /\ rencs.cmds = <<rdec.enc>>)
    /\ (readv.st # "" /\ BothWays) => (readv.st = "ok" /\ radv \in Range(readv.advs))

(***************************************************************************)
(* Properties of the registration specification.                           *)
(***************************************************************************)
\* the references add_rev_only_trans added to the codec, given what it was given
AddedRefs == {i \in 1..Len(pool) : i > Len(glast.pre)}

\* C14: a translator on which no_direct() was called never takes part in
\* ent_to_enc, and one on which no_reverse() was called never takes part in
\* enc_to_ent; add_rev_only_trans registers only the reverse-enabled
\* translators it is given, as direct-disabled copies, and leaves the flags
\* of the translators it was given as they were.
C14_GatingPermanent ==
    /\ \A i \in called.nd : ~pool[i].direct
    /\ \A i \in called.nr : ~pool[i].reverse
    /\ glast.op = "ent_to_enc" => glast.took \cap called.nd = {}
    /\ glast.op = "enc_to_ent" => glast.took \cap called.nr = {}
    /\ glast.op = "add_rev_only_trans" =>
           LET sel == SelectSeq(glast.given, LAMBDA i : glast.pre[i].reverse)
               refs == held[glast.codec_id]
           IN  /\ Len(pool) = Len(glast.pre) + Len(sel)
               /\ \A k \in 1..Len(sel) :
                      /\ refs[Len(refs) - Len(sel) + k] = Len(glast.pre) + k
                      /\ pool[Len(glast.pre) + k] = [glast.pre[sel[k]] EXCEPT !.direct = FALSE]
                      /\ pool[Len(glast.pre) + k].reverse
               /\ \A i \in 1..Len(glast.pre) : pool[i] = glast.pre[i]

\* add_rev_only_trans was given a direct-enabled translator and one with
\* no_reverse() called, and a codec that holds a copy then translated
C14_Witness ==
    \E c \in GateCodecs :
        /\ glast.op = "ent_to_enc"
        /\ glast.codec_id = c
        /\ \E k \in 1..Len(held[c]) : held[c][k] > GateObjs /\ pool[1].direct
        /\ called.nr # {}
        /\ glast.took # {}

C16_ParseRoundTrip ==
    pin.fn = "FromRaw" =>
        /\ pout.ffb = pout.fb
        /\ BleAdvAdvertisement_eq(pout.parsed, pin.adv)

\* C16 as amended: for a buffer b that to_raw() produced, f(f(b)) = f(b); and
\* FromRaw(b) equals the advertisement that produced b when that advertisement
\* has one of the ble types 0x03, 0x05, 0x16, 0xFF and a raw that is not empty.
C16_ParseIdempotent ==
    pin.fn = "FromRaw" =>
        /\ pout.ffb = pout.fb
        /\ (pin.adv.ble_type \in {3, 5, 22, 255} /\ pin.adv.raw # <<>>) =>
               BleAdvAdvertisement_eq(pout.parsed, pin.adv)

\* an advertisement of type 0x16 with flags and a full raw was serialised and parsed back
C16_Witness ==
    /\ pin.fn = "FromRaw"
    /\ pin.adv.ble_type = 22
    /\ pin.adv.ad_flag = 25
    /\ Len(pin.adv.raw) = MaxRaw
    /\ Len(pout.b) = MaxRaw + 5
    /\ pout.parsed.raw = pin.adv.raw

\* C17: for every buffer b and seed s, whiten(whiten(b, s), s) = b, and
\* whiten(b, s) is as long as b.
C17_WhitenSelfInverse ==
    pin.fn = "whiten" =>
        /\ pout.twice = pin.buffer
        /\ Len(pout.once) = Len(pin.buffer)

\* a buffer of the greatest length was whitened into another buffer
C17_Witness ==
    /\ pin.fn = "whiten"
    /\ Len(pin.buffer) = MaxRaw
    /\ pout.once # pin.buffer
    /\ pin.seed # 0

C20_SplitRepeat ==
    pin.fn = "split_repeat" =>
        LET chunks == pout.qi.adv_items
            most   == IF pin.bunch_time \div pin.interval > 1
                      THEN pin.bunch_time \div pin.interval ELSE 1
        IN  /\ Len(pin.data) = 1 =>
                   /\ \A k \in DOMAIN chunks :
                          /\ chunks[k].data = pin.data[1]
                          /\ chunks[k].repeat >= 1
                          /\ chunks[k].repeat <= most
                   /\ SumAll([k \in DOMAIN chunks |-> chunks[k].repeat]) = pin.repeat
            /\ Len(pin.data) > 1 =>
                   /\ Len(chunks) = Len(pin.data)
                   /\ \A k \in DOMAIN chunks :
                          chunks[k].data = pin.data[k] /\ chunks[k].repeat = 1

\* ten repeats of one buffer at interval 10 were split for a bunch time of 60
C20_Witness ==
    /\ pin.fn = "split_repeat"
    /\ Len(pin.data) = 1
    /\ pin.repeat = 10
    /\ Len(pout.qi.adv_items) = 2
    /\ pout.qi.adv_items[1].repeat = 6
    /\ pout.qi.adv_items[2].repeat = 4

(***************************************************************************)
(* Properties of the adapter specification.                                *)
(***************************************************************************)
\* the chunks advertised for the items of queue queue_id, as numbers of the
\* enqueue calls
AdvertisedOf(queue_id) ==
    LET s == SelectSeq(alog.advertised, LAMBDA x : alog.enq[x.no].queue_id = queue_id)
    IN  [k \in DOMAIN s |-> s[k].no]

\* C19: the chunks of the items of one queue are advertised in the order the
\* items were enqueued, each chunk as split_repeat made it and never more of
\* them than the item has; a drain() that returns does so with every queue
\* empty, no queue locked, no _advertise under way and every item that was not
\* replaced advertised in full; and a drain() that waits returns in the end.
C19_QueueOrderAndDrain ==
    /\ [](\A queue_id \in AdapterQueues :
              LET s == AdvertisedOf(queue_id)
              IN  \A k \in DOMAIN s : k > 1 => s[k - 1] <= s[k])
    /\ [](\A n \in DOMAIN alog.enq :
              LET chunks == split_repeat(alog.enq[n].qi, AdapterBunchTime).adv_items
                  s == SelectSeq(alog.advertised, LAMBDA x : x.no = n)
              IN  /\ Len(s) <= Len(chunks)
                  /\ \A k \in DOMAIN s : s[k].adv = chunks[k])
    /\ [](drn.pc = "returned" => (~drn.in_flight /\ drn.complete))
    /\ (drn.pc = "sleep") ~> (drn.pc = "returned")

\* drain() had to wait and returned after three items, two of them on one
\* queue with different keys, were advertised in full
C19_Witness ==
    /\ drn.pc = "returned"
    /\ Len(alog.enq) = 3
    /\ alog.replaced = {}
    /\ Len(alog.advertised) >= 3
    /\ \E i, j \in DOMAIN alog.enq :
           /\ i < j
           /\ alog.enq[i].queue_id = alog.enq[j].queue_id
           /\ alog.enq[i].qi.key # alog.enq[j].qi.key
    /\ \A q \in DOMAIN hci.queues : hci.queues[q] = <<>>

(***************************************************************************)
(* Properties of the coordinator with its clock (SpecWindow).              *)
(***************************************************************************)
\* the last reception left the buffer alone: no codec and no cache of decoded
\* advertisements saw it, no device was called, the listening mode did not
\* record it
ReceptionIgnored ==
    /\ wlog.recv.pub = {}
    /\ ~wlog.recv.decoded
    /\ ~wlog.recv.listened

\* C21 as stated: a buffer handed to an adapter is ignored when it is
\* received before the ign_duration of the queue item it was handed in has
\* elapsed, for every queue item it was handed in.
C21_IgnoredForItsItem ==
    wlog.recv.at < wlog.recv.max_expiry => ReceptionIgnored

\* C21, amended: a buffer handed to an adapter is ignored (neither decoded,
\* nor delivered, nor recorded by the listening mode) when it is received
\* before the expiry that the last advertise call for this buffer set: the
\* time of that call plus the ign_duration of its queue item.
C21_IgnoredUntilLastExpiry ==
    wlog.recv.at < wlog.recv.last_expiry => ReceptionIgnored

\* a buffer that a device handed to its adapters is received later, in
\* listening mode and with its codec in use, before the expiry, and is ignored
C21_Witness ==
    /\ wlog.recv.last_expiry = 12000
    /\ wlog.recv.at = 500
    /\ wlog.recv.accepted # {}
    /\ co.stop_listening_time > clock
    /\ ReceptionIgnored

(***************************************************************************)
(* Properties of the coordinator that hears other controllers while        *)
(* devices come and go (SpecDeliver).                                      *)
(***************************************************************************)
\* C29: a decoded advertisement is delivered to a given device at most once
\* during the ignore window of its codec: the last reception called no
\* device that the same buffer was delivered to less than the codec's
\* ign_duration before.
C29_DeliveredOncePerWindow == wlog.recv.again = {}

\* C30: every registered device that matches a decoded advertisement is
\* delivered it as soon as an adapter it listens on receives it: the last
\* reception, when it went to the codecs or to the decoded cache, left no
\* matching device of its adapter without a delivery, made now or in a window
\* that still runs.
C30_EveryMatchingDeviceDelivered == wlog.recv.missed = {}

(***************************************************************************)
(* Properties of the socket with its receive task (SpecSock).              *)
(***************************************************************************)
\* C23: the error callback is called when, and only when, the receive loop
\* ends because the peer closed or broke the connection or receiving raised,
\* after async_start_recv has completed: not for a loop that ended before,
\* not for a loop that close() cancelled, and at most once per loop.
C23_ErrorCallback ==
    /\ scklog.on_error <= 1
    /\ scklog.on_error = 1 <=>
          /\ scklog.ended \in {"peer", "exception"}
          /\ scklog.completed_at_end

\* a second receive loop, started and completed, ended by the peer: the
\* callback was called once, and the socket was closed afterwards
C23_Witness ==
    /\ scklog.loops = 2
    /\ scklog.ended = "peer"
    /\ scklog.completed_at_end
    /\ scklog.on_error = 1
    /\ scklog.closed = 2

(***************************************************************************)
(* Properties of the HCI adapter with its manager (SpecBt).                *)
(***************************************************************************)
\* what call c of _advertise wrote and slept, in order
WrittenBy(c) ==
    LET mine == SelectSeq(btlog.written, LAMBDA x : x.by = c)
    IN  [i \in 1..Len(mine) |-> mine[i].cmd]

C25_ClosedAdapterRaises == ~btlog.wrote_closed

\* C26: a command whose Command Complete does not come in time raises
\* TimeoutError and releases its lock: a command lock is held only by a
\* call that waits for the answer of its command, never by a call that
\* raised or ended.
C26_TimeoutReleasesLock ==
    /\ \A c \in DOMAIN bt.calls :
          (bt.cmd_lock = c \/ bt.mgmt_cmd_lock = c) => bt.calls[c].at = "wait"
    /\ \A c \in DOMAIN bt.calls :
          bt.calls[c].at = "raised" =>
              bt.calls[c].err \in {"TimeoutError", "AdapterError", "AttributeError"}

\* a command of the first call timed out, and the commands of the second
\* call, sent afterwards, were written and answered
C26_Witness ==
    /\ btlog.timeouts = 1
    /\ bt.calls[1].at = "raised"
    /\ bt.calls[1].err = "TimeoutError"
    /\ bt.calls[2].at = "done"
    /\ bt.opened

(***************************************************************************)
(* Properties of the recovery of the HCI manager (SpecMgr).                *)
(***************************************************************************)
\* C22: after a refresh request the manager closes everything and
\* re-initialises until an attempt succeeds; from then on the discovered
\* adapters are registered again and advertise: once _acquire_connection
\* has ended, every controller of the index list is registered, opened and
\* has its _dequeue task.
C22_RecoveredAdaptersAdvertise ==
    (~mg.reconnecting /\ mglog.attempts > 0) =>
        \A a \in mglog.discovered :
            /\ mg.adapters[a].registered
            /\ mg.adapters[a].opened
            /\ mg.adapters[a].processing

(***************************************************************************)
(* Properties of the timer of a device (SpecTimer).                        *)
(***************************************************************************)
\* the timers Home Assistant still holds
TrackedIds == {t.id : t \in dv.tracked}

\* what holds of the timers in every state: a timer fires or is cancelled,
\* never both; after _async_timeout every entity is off, and it ran at or
\* after the time requested, for a timer no command and no change came after
TimerSafe ==
    /\ dvlog.fired \cap dvlog.cancelled = {}
    /\ TrackedIds \cap (dvlog.fired \cup dvlog.cancelled) = {}
    /\ TrackedIds \subseteq {dv.timer_cancel}
    /\ dvlog.last.op = "timeout" =>
        /\ \A e \in EntIds : ~dv.is_on[e]
        /\ dvlog.last.id = dvlog.timers
        /\ dvlog.last.id \notin dvlog.cancelled

\* a step that is not the handling of a command or of a change switches
\* entities off only as the _async_timeout of a timer that was not cancelled
OffOnlyByLiveTimer ==
    [][(/\ \E e \in EntIds : dv.is_on[e] /\ ~dv'.is_on[e]
        /\ dvlog'.last.op \notin {"timer", "command", "change"})
       => /\ dvlog'.last.op = "timeout"
          /\ dvlog'.last.id \in TrackedIds
          /\ dvlog'.last.id \notin dvlog.cancelled]_vars

\* a pending timer stays pending only while time passes: the handling of a
\* command or of a change cancels it, and it is then among the cancelled
CancelledByNext ==
    [][/\ (TrackedIds # {} /\ TrackedIds \subseteq {t.id : t \in dv'.tracked})
          => dvlog'.last.op = "tick"
       /\ (TrackedIds \ {t.id : t \in dv'.tracked}) \subseteq (dvlog'.fired \cup dvlog'.cancelled)]_vars

C28_ZhijiaV0PairVector ==
    vraw = ZhijiaV0PairRaw =>
        /\ vt.dec.st # "" =>
            /\ vt.dec.st = "ok"
            /\ vt.dec.enc = BleAdvEncCmd(180, 0, 0, 0, 0)
            /\ vt.dec.conf.id = 21284
            /\ vt.dec.conf.index = 1
            /\ vt.dec.conf.tx_count = 24
            /\ vt.dec.conf.seed = 0
        /\ vt.ents.st # "" =>
            /\ vt.ents.st = "ok"
            /\ Len(vt.ents.ents) = 1
            /\ vt.ents.ents[1].base_type = "device"
            /\ vt.ents.ents[1].index = 0
            /\ vt.ents.ents[1].chg_attrs = {"cmd"}
            /\ DOMAIN vt.ents.ents[1].attrs = {"cmd"}
            /\ vt.ents.ents[1].attrs["cmd"].s = "pair"
        /\ vt.encs.st # "" => vt.encs.st = "ok" /\ vt.encs.cmds = <<vt.dec.enc>>
        /\ (vt.readv.st # "" /\ vt.tx_step = 0) =>
            /\ vt.readv.st = "ok"
            /\ Len(vt.readv.advs) = 1
            /\ BleAdvAdvertisement_eq(vt.readv.advs[1], vt.adv)
            /\ to_raw(vt.readv.advs[1]) = vraw

\* the recorded advertisement went through all the steps, re-encoded with
\* tx_step 0
C28_Witness ==
    /\ vraw = ZhijiaV0PairRaw
    /\ vt.dec.enc.cmd = 180
    /\ vt.ents.st = "ok"
    /\ vt.encs.st = "ok"
    /\ vt.readv.st = "ok"
    /\ vt.tx_step = 0
    /\ to_raw(vt.readv.advs[1]) = ZhijiaV0PairRaw

(***************************************************************************)
(* Properties of the queues of the adapter (SpecAdapter).                  *)
(***************************************************************************)
\* the numbers of the items pending in the queue at position q
PendingIn(q) == {hci.queues[q][k].no : k \in DOMAIN hci.queues[q]}

PendingNos == UNION {PendingIn(q) : q \in DOMAIN hci.queues}

\* the items that left their queue with chunks that were never handed to
\* _advertise
RemovedNos ==
    {n \in DOMAIN alog.enq :
        /\ n \notin PendingNos
        /\ ~(dq.pc = "advertise" /\ dq.item.no = n)
        /\ Len(SelectSeq(alog.advertised, LAMBDA x : x.no = n))
               < Len(split_repeat(alog.enq[n].qi, AdapterBunchTime).adv_items)}

\* what holds of the queues in every state
OnePendingPerKey ==
    /\ \A q \in DOMAIN hci.queues :
        /\ \A j, k \in DOMAIN hci.queues[q] :
              (j # k /\ hci.queues[q][j].qi.key # NoKey)
                  => hci.queues[q][j].qi.key # hci.queues[q][k].qi.key
        /\ \A j, k \in DOMAIN hci.queues[q] : j < k => hci.queues[q][j].no < hci.queues[q][k].no
        /\ \A n \in PendingIn(q) : alog.enq[n].queue_id = hci.queues_index[q]
    /\ \A n \in RemovedNos :
        /\ alog.enq[n].qi.key # NoKey
        /\ \E m \in DOMAIN alog.enq :
              /\ m > n
              /\ alog.enq[m].queue_id = alog.enq[n].queue_id
              /\ alog.enq[m].qi.key = alog.enq[n].qi.key

\* what an enqueue call does: the new item is the last of its queue, the other
\* queues are as they were, and of its queue the items with key None and
\* those with another key stay, in their order
EnqueueSupersedes ==
    [][Len(alog'.enq) > Len(alog.enq) =>
        LET n == Len(alog'.enq)
            e == alog'.enq[n]
        IN  \E q \in DOMAIN hci'.queues :
               /\ hci'.queues_index[q] = e.queue_id
               /\ hci'.queues[q][Len(hci'.queues[q])].no = n
               /\ \A p \in DOMAIN hci.queues :
                      IF p # q THEN hci'.queues[p] = hci.queues[p]
                      ELSE SubSeq(hci'.queues[p], 1, Len(hci'.queues[p]) - 1)
                             = SelectSeq(hci.queues[p],
                                         LAMBDA x : x.qi.key = NoKey \/ x.qi.key # e.qi.key)
               /\ \A p \in DOMAIN hci'.queues : p \notin DOMAIN hci.queues => p = q]_vars

\* C31: in every queue at most one pending item carries a given key that is
\* not None; enqueue with such a key removes the pending items of the queue
\* with that key and appends the new item last; an item leaves its queue
\* unadvertised only for a later item of the same queue with the same key;
\* items with key None and items of other queues are never removed.
C31_OnePendingItemPerKey == []OnePendingPerKey /\ EnqueueSupersedes

\* the third item took the place of the first, which had the same key, in a
\* queue where an item with key None and, in the other queue, nothing changed
C31_Witness ==
    /\ Len(alog.enq) = 3
    /\ alog.enq[1].qi.key = 20 /\ alog.enq[3].qi.key = 20 /\ alog.enq[2].qi.key = NoKey
    /\ alog.enq[1].queue_id = "q1" /\ alog.enq[2].queue_id = "q1" /\ alog.enq[3].queue_id = "q1"
    /\ RemovedNos = {1}
    /\ PendingNos = {2, 3}

\* the position in _queues of the queue item number n was enqueued in
QueueOf(n) == queues_index_get(hci, alog.enq[n].queue_id)

\* item number n has had every chunk handed to _advertise and sent
SentInFull(log, n) ==
    Len(SelectSeq(log.advertised, LAMBDA x : x.no = n))
        = Len(split_repeat(log.enq[n].qi, AdapterBunchTime).adv_items)

\* no chunk of a locked queue is under way
LockedQueueSilent ==
    dq.pc = "advertise" => ~hci.locked_tasks[QueueOf(dq.item.no)]

\* when the last chunk of an item with delay_after > 0 has been sent its
\* queue is locked, and a locked queue is unlocked by the end of the sleep of
\* its _unlock_queue only
LockedAfterLast ==
    [][/\ (Len(alog'.advertised) > Len(alog.advertised)
           /\ SentInFull(alog', dq.item.no)
           /\ alog.enq[dq.item.no].qi.delay_after > 0)
          => hci'.locked_tasks[QueueOf(dq.item.no)]
       /\ \A q \in DOMAIN hci.locked_tasks :
            (hci.locked_tasks[q] /\ ~hci'.locked_tasks[q])
                => (alog' = alog /\ dq' = dq /\ hci'.queues = hci.queues)]_vars

\* C32: after the last advertisement of an item with delay_after > 0 its
\* queue is locked until the delay has elapsed and no item of it is
\* advertised meanwhile; the other queues are served; every pending item,
\* also one that waited in a locked queue, leaves its queue in the end
\* without a new enqueue.
C32_QueueLockedForDelay ==
    /\ []LockedQueueSilent
    /\ LockedAfterLast
    /\ \A n \in 1..MaxEnq : (n \in PendingNos) ~> (n \notin PendingNos)

\* queue q1 is locked after its first item, its second item waits, and a
\* chunk of queue q2 is under way
C32_Witness ==
    /\ Len(alog.enq) = 3
    /\ hci.qlen = 2
    /\ hci.locked_tasks[1]
    /\ SentInFull(alog, 1)
    /\ alog.enq[1].qi.delay_after > 0
    /\ hci.queues[1] # <<>>
    /\ dq.pc = "advertise"
    /\ QueueOf(dq.item.no) = 2

\* how many queues the scan of _dequeue looks at before the one at position
\* p (from 0), starting after position cur
ScanRank(p, cur, qlen) == (p - cur - 1 + qlen) % qlen

\* a step in which _dequeue takes a chunk
TakesChunk ==
    /\ dq'.pc = "advertise"
    /\ dq.pc = "wait" \/ Len(alog'.advertised) > Len(alog.advertised)

\* the queue a chunk is taken from is the first one after the queue served
\* before, in cyclic order, that is neither empty nor locked
CyclicOrder ==
    [][TakesChunk =>
        /\ hci'.cur_ind + 1 = queues_index_get(hci, alog.enq[dq'.item.no].queue_id)
        /\ \A p \in 0..(hci.qlen - 1) :
              ScanRank(p, hci.cur_ind, hci.qlen) < ScanRank(hci'.cur_ind, hci.cur_ind, hci.qlen)
                  => (hci.locked_tasks[p + 1] \/ hci.queues[p + 1] = <<>>)]_vars

\* the chunks sent and the one under way, in the order _dequeue took them
Taken == IF dq.pc = "advertise" THEN Append(alog.advertised, dq.item) ELSE alog.advertised

\* between two chunks of one item at most one chunk of each other queue was
\* taken
OneChunkPerTurn ==
    \A i, j \in DOMAIN Taken :
        (/\ i < j
         /\ Taken[i].no = Taken[j].no
         /\ \A k \in (i + 1)..(j - 1) : Taken[k].no # Taken[i].no)
        => \A k, l \in (i + 1)..(j - 1) :
              k # l => alog.enq[Taken[k].no].queue_id # alog.enq[Taken[l].no].queue_id

\* C33: the _dequeue loop serves the queues that are neither empty nor locked
\* in cyclic order, one chunk per turn: an item waits for at most one chunk of
\* each other queue before its next chunk is taken.
C33_RoundRobin == CyclicOrder /\ []OneChunkPerTurn

\* the two chunks of an item of queue q1 were taken with one chunk of queue
\* q2 between them, while queue q2 held a further item
C33_Witness ==
    /\ Len(Taken) >= 3
    /\ Taken[1].no = Taken[3].no
    /\ alog.enq[Taken[1].no].queue_id = "q1"
    /\ alog.enq[Taken[2].no].queue_id = "q2"
    /\ Len(alog.enq) = 3
    /\ hci.queues[2] # <<>>

(***************************************************************************)
(* Properties of async_final of an adapter (SpecFinal).                    *)
(***************************************************************************)
\* C34: after async_final the adapter has no queue, no queue index and no
\* queue lock; a chunk taken afterwards is of an item enqueued afterwards;
\* and no task left over from before the call (the _dequeue loop, a pending
\* _unlock_queue) raises or reports an error.
C34_FinalLeavesReady ==
    /\ fin.cleared
    /\ (fin.finals > 0 /\ dq.pc = "advertise") => dq.item.no > fin.enq_before
    /\ fin.errors = {}

(***************************************************************************)
(* Properties of the recovery task of the manager (SpecMgrLive) and of its *)
(* shutdown (SpecShutdown).                                                *)
(***************************************************************************)
\* C35: after the owner called async_final() the manager stays closed: the
\* management socket and every adapter stay closed, no recovery is started
\* and none completes.
C35_ShutdownStaysClosed ==
    mglog.shut.done =>
        /\ ~mg.mgmt_opened
        /\ ~mg.mgmt_sock
        /\ \A a \in DOMAIN mg.adapters : ~mg.adapters[a].opened
        /\ mglog.launches = mglog.shut.launches
        /\ mglog.attempts = mglog.shut.attempts

\* of the _acquire_connection tasks created, all but at most one have ended,
\* and one is alive exactly while _reconnecting is set
OneTask ==
    /\ mglog.launches - mglog.attempts \in {0, 1}
    /\ mg.reconnecting <=> mglog.launches - mglog.attempts = 1
    /\ mg.reconnecting <=> mg.pc # "none"

\* a request for a refresh while a recovery runs changes nothing; one that
\* comes when none runs creates the task
RequestStartsOrIgnored ==
    [][/\ mglog'.ignored > mglog.ignored => (mg.reconnecting /\ mg' = mg)
       /\ mglog'.launches > mglog.launches =>
             (~mg.reconnecting /\ mg'.reconnecting /\ mg'.pc = "created")
       /\ mglog'.launches + mglog'.ignored <= mglog.launches + mglog.ignored + 1]_vars

\* C36: at most one _acquire_connection task runs at any time whatever the
\* refresh requests; a request received while it runs does not keep it from
\* completing; a request after it completed creates a new task.
C36_OneReconnectionTask ==
    /\ []OneTask
    /\ RequestStartsOrIgnored
    /\ mg.reconnecting ~> ~mg.reconnecting

\* a second recovery completed after the first, and a request that came
\* while one was running was ignored
C36_Witness ==
    /\ mglog.launches = 2
    /\ mglog.attempts = 2
    /\ mglog.ignored = 1
    /\ ~mg.reconnecting

(***************************************************************************)
(* Properties of the commands on the HCI and MGMT sockets (SpecCmd).       *)
(***************************************************************************)
\* C37: one command at most is in flight per channel, and the return code a
\* command returns is the one of the Command Complete event that answers
\* this very command: never the event of another opcode or controller, never
\* the late event of an earlier command that timed out.
C37_AnswerOfOwnCommand ==
    \A ch \in Channels :
        /\ hc[ch].pc = "wait" => hc[ch].cur = hc[ch].sent
        /\ \A r \in hc[ch].returned :
              r.from = r.no
        /\ hc[ch].event /\ hc[ch].pc = "wait" => hc[ch].ret_from = hc[ch].cur

(***************************************************************************)
(* Properties of the window of the advertisements no codec decodes         *)
(* (SpecIgnore).                                                           *)
(***************************************************************************)
\* the window of raw_adv in _raw_last_advs is running
InRawWindow(raw_adv) == raw_adv \in DOMAIN co.raw_last /\ co.raw_last[raw_adv] > clock

\* raw_adv is held in _dec_last_advs and not expired
InDecCache(raw_adv) ==
    /\ FromRaw(raw_adv).raw \in DOMAIN co.dec_last
    /\ co.items[co.dec_last[FromRaw(raw_adv).raw]].del_time > clock

\* a reception in the window is ignored and restarts the window; outside of
\* it the buffer goes to the decoded cache or to the in-use codecs, and when
\* it goes to the codecs and none decodes it, its window starts, else every
\* registered device that matches is called; no device is called that is
\* not registered
ReceptionAndWindow ==
    wlog'.recvs = wlog.recvs + 1 =>
        LET raw_adv == wlog'.recv.raw
        IN  /\ InRawWindow(raw_adv) =>
                /\ ~wlog'.recv.decoded /\ ~wlog'.recv.listened
                /\ wlog'.recv.pub = {}
                /\ co'.items = co.items
                /\ co'.raw_last[raw_adv] = clock + CoordIgnDuration
            /\ (~InRawWindow(raw_adv) /\ Len(raw_adv) >= 8) => wlog'.recv.decoded
            /\ (~InRawWindow(raw_adv) /\ Len(raw_adv) >= 8 /\ ~InDecCache(raw_adv)) =>
                IF Accepted(co, raw_adv) = {}
                THEN /\ wlog'.recv.pub = {}
                     /\ raw_adv \in DOMAIN co'.raw_last
                     /\ co'.raw_last[raw_adv] = clock + CoordIgnDuration
                ELSE /\ raw_adv \notin DOMAIN co'.raw_last
                     /\ wlog'.recv.missed = {}
            /\ wlog'.recv.pub \subseteq Range(co.devices)

\* add_device empties _raw_last_advs and the codecs of the devices
\* registered are in use
AddDeviceClears ==
    Len(co'.devices) > Len(co.devices) =>
        /\ co'.raw_last = <<>>
        /\ \A d \in Range(co'.devices) : Device(d).in_use_codec_ids \subseteq Range(co'.in_use)

\* C38: an advertisement no in-use codec decodes is ignored for ign_duration,
\* every reception in the window restarting it; add_device empties that
\* cache and recomputes the in-use codecs, so the first reception after it
\* is tried against the codecs of the new device; a device removed is not
\* called again.
C38_UndecodedIgnoredWindow == [][ReceptionAndWindow /\ AddDeviceClears]_vars

\* the third reception of a buffer no codec decodes, 80 s after the first
\* and 40 s after the second, is ignored: the second restarted the window
C38_Witness ==
    /\ wlog.recvs = 3
    /\ clock = 80000
    /\ wlog.recv.raw = OtherRaw
    /\ ~wlog.recv.decoded
    /\ OtherRaw \in DOMAIN co.raw_last
    /\ co.raw_last[OtherRaw] = clock + CoordIgnDuration

\* a buffer was ignored while no device used a codec that decodes it; the
\* device added since was called at the next reception, inside the window
C38_WitnessAdded ==
    /\ wlog.recvs = 2
    /\ clock = 0
    /\ wlog.recv.raw = BothRaw
    /\ wlog.recv.pub # {}
    /\ co.raw_last = <<>>

(***************************************************************************)
(* Properties of the timer of a device called with lists of commands       *)
(* (SpecTimerList).                                                        *)
(***************************************************************************)
\* C39: a device has one pending timer at most, the one _timer_cancel
\* holds, also after a call with several timer commands; a timer cancelled
\* or replaced never fires: the timer that fires is the last one installed.
C39_OnePendingTimer ==
    /\ Cardinality(TrackedIds) <= 1
    /\ TrackedIds \subseteq {dv.timer_cancel}
    /\ dvlog.fired \cap dvlog.cancelled = {}
    /\ dvlog.last.op = "timeout" => dvlog.last.id = dvlog.timers

====
